---------------------------- MODULE Spec2Model ----------------------------
(***************************************************************************)
(* A model of draw_io_parser.py: the conversion of a draw.io graph into    *)
(* OWL individuals (Manchester syntax) with respect to Records in Contexts.*)
(*                                                                         *)
(* Text is modelled as a sequence of one-character strings, so that the    *)
(* string operations of the source (strip, split, replace, join, sorted,   *)
(* upper, lower) are computed character by character.                      *)
(*                                                                         *)
(* An optional value (Python's None versus a value) is a sequence of       *)
(* length 0 or 1.  The outcome of a function that may raise is a record    *)
(* [ok |-> TRUE, val |-> v] or [ok |-> FALSE, exc |-> name, ...].          *)
(***************************************************************************)
EXTENDS Integers, Sequences, FiniteSets, TLC

VARIABLES
    \* NodeHTMLParser (one instance, owned by the DrawIOXMLTree)
    chunks,        \* NodeHTMLParser._chunks
    raw_data,      \* NodeHTMLParser._raw_data
    within_tag,    \* NodeHTMLParser._within_tag
    label_out,     \* what content() returned, if it was called
    rawdata,       \* HTMLParser.rawdata: what was fed and is not handled yet
    cdata_elem,    \* HTMLParser.cdata_elem: the element whose content is read as text
    labels,        \* the values _value_of is called on, in order
    returned,      \* what _value_of returned for them, in order
    extractor,     \* where _value_of is: ready, cleared or fed
    \* _replace_metacharacters, called on its own
    san_in,        \* the arguments of the call
    san_out,       \* its outcome, if it was called
    \* individual_blocks, called on its own
    blk_in,        \* the arguments of the call
    blk_out,       \* what it left, if it was called
    \* a run of the script (_main)
    stdin,         \* the diagram read from the standard input
    arguments,     \* the options of the command line
    clock,         \* the current time, in seconds
    pc,            \* where the run is
    options,       \* the options of substitution, parsed
    draw_io_xml_tree, \* the DrawIOXMLTree: what its constructor extracted
    yielded,       \* what the iterator gave individual_blocks
    assembled,     \* the blocks, as individual_blocks left them
    raised,        \* the exception individual_blocks was left by, if any
    serialised,    \* what serialise returned
    stdout,        \* the text written to the standard output
    exit_message,  \* the message the run exited with, if it did
    run,           \* the number of the run: the first or the second
    previous,      \* the run before this one: its input and what came of it
    \* _start_or_end, call by call
    frames,        \* the calls of _start_or_end that have not returned
    resolved       \* what the outermost call returned or raised, if it ended

labelVars == <<chunks, raw_data, within_tag, label_out, rawdata, cdata_elem, labels,
              returned, extractor>>
sanVars == <<san_in, san_out>>
blockVars == <<blk_in, blk_out>>
inputVars == <<stdin, arguments>>
runVars == <<pc, options, draw_io_xml_tree, yielded, assembled, raised, serialised,
            stdout, exit_message>>
historyVars == <<run, previous>>
callVars == <<frames, resolved>>
vars == <<labelVars, sanVars, blockVars, inputVars, clock, runVars, historyVars,
          callVars>>

---------------------------------------------------------------------------
(* Optional values and outcomes *)

\* The element of a set of one element.  The({e(x) : x \in {v}}) is e(v),
\* with v computed once, however often e refers to it.
The(S) == CHOOSE x \in S : TRUE

None == <<>>
Some(v) == <<v>>
IsNone(o) == o = <<>>
IsSome(o) == o # <<>>
Get(o) == o[1]

\* the message of an exception is the list of the texts it names
Ok(v) == [ok |-> TRUE, val |-> v]
Raise(e, m) == [ok |-> FALSE, exc |-> e, msg |-> m]

---------------------------------------------------------------------------
(* Characters and strings *)

Min(S) == CHOOSE x \in S : \A y \in S : x <= y

\* The printable ASCII characters in code point order, from 32 (space);
\* "GRAVE" stands for the grave accent (96).
Printable ==
    << " ", "!", "\"", "#", "$", "%", "&", "'", "(", ")", "*", "+", ",", "-",
       ".", "/", "0", "1", "2", "3", "4", "5", "6", "7", "8", "9", ":", ";",
       "<", "=", ">", "?", "@", "A", "B", "C", "D", "E", "F", "G", "H", "I",
       "J", "K", "L", "M", "N", "O", "P", "Q", "R", "S", "T", "U", "V", "W",
       "X", "Y", "Z", "[", "\\", "]", "^", "_", "GRAVE", "a", "b", "c", "d", "e",
       "f", "g", "h", "i", "j", "k", "l", "m", "n", "o", "p", "q", "r", "s",
       "t", "u", "v", "w", "x", "y", "z", "{", "|", "}", "~" >>

PrintableSet == {Printable[i] : i \in 1..Len(Printable)}

OrdTable == [c \in PrintableSet |-> 31 + (CHOOSE i \in 1..Len(Printable) : Printable[i] = c)]

\* ord(c): the code point of a character
Ord(c) == IF c = "\n" THEN 10 ELSE IF c = "\t" THEN 9 ELSE OrdTable[c]

Chr(n) == Printable[n - 31]

IsUpperChar(c) == c \in PrintableSet /\ Ord(c) >= 65 /\ Ord(c) <= 90
IsLowerChar(c) == c \in PrintableSet /\ Ord(c) >= 97 /\ Ord(c) <= 122
IsDigit(c) == c \in PrintableSet /\ Ord(c) >= 48 /\ Ord(c) <= 57

\* str.upper() and str.lower() of one character
UpperChar(c) == IF IsLowerChar(c) THEN Chr(Ord(c) - 32) ELSE c
LowerChar(c) == IF IsUpperChar(c) THEN Chr(Ord(c) + 32) ELSE c

\* the characters str.strip() and str.split() treat as whitespace
IsSpace(c) == c \in {" ", "\t", "\n"}

RECURSIVE LStrip(_)
LStrip(s) == IF s # <<>> /\ IsSpace(Head(s)) THEN LStrip(Tail(s)) ELSE s

RECURSIVE RStrip(_)
RStrip(s) ==
    IF s # <<>> /\ IsSpace(s[Len(s)]) THEN RStrip(SubSeq(s, 1, Len(s) - 1)) ELSE s

\* str.strip()
Strip(s) == The({RStrip(left) : left \in {LStrip(s)}})

\* c in s, for a character c
HasChar(s, c) == \E i \in 1..Len(s) : s[i] = c

\* s.startswith(p)
StartsWith(s, p) == Len(s) >= Len(p) /\ SubSeq(s, 1, Len(p)) = p

\* the concatenation of a sequence of strings: "".join(parts)
RECURSIVE Concat(_)
Concat(parts) == IF parts = <<>> THEN <<>> ELSE Head(parts) \o Concat(Tail(parts))

\* sep.join(parts)
RECURSIVE Join(_, _)
Join(sep, parts) ==
    IF parts = <<>> THEN <<>>
    ELSE IF Len(parts) = 1 THEN Head(parts)
    ELSE Head(parts) \o sep \o Join(sep, Tail(parts))

\* the number of places at which p occurs in s
CountSub(s, p) ==
    Cardinality({i \in 1..(Len(s) - Len(p) + 1) : SubSeq(s, i, i + Len(p) - 1) = p})

\* s with every character c removed from it
RECURSIVE Without(_, _)
Without(s, c) ==
    IF s = <<>> THEN <<>>
    ELSE IF Head(s) = c THEN Without(Tail(s), c)
    ELSE <<Head(s)>> \o Without(Tail(s), c)

\* all sequences over S of length at most n
RECURSIVE SeqsUpTo(_, _)
SeqsUpTo(S, n) ==
    IF n = 0 THEN {<<>>}
    ELSE LET shorter == SeqsUpTo(S, n - 1)
         IN  shorter \cup {Append(q, x) : q \in {r \in shorter : Len(r) = n - 1}, x \in S}

---------------------------------------------------------------------------
(* NodeHTMLParser: the text of a label *)

PARAGRAPH_BREAK == <<"\n", "\n">>

\* The loop of _prettify_linebreaks from chunk i on; st holds the locals
\* previous_was_empty, paragraph_already_handled and current, and out the
\* strings yielded so far.
RECURSIVE PrettifyFrom(_, _, _, _)
PrettifyFrom(cs, i, st, out) ==
    IF i > Len(cs)
    THEN IF st.current # <<>> THEN Append(out, st.current) ELSE out
    ELSE IF cs[i] = <<>>
         THEN LET out1 == IF st.current # <<>> THEN Append(out, st.current) ELSE out
              IN  IF st.previous_was_empty /\ ~st.paragraph_already_handled
                  THEN PrettifyFrom(cs, i + 1,
                           [st EXCEPT !.current = <<>>,
                                      !.paragraph_already_handled = TRUE],
                           Append(out1, PARAGRAPH_BREAK))
                  ELSE PrettifyFrom(cs, i + 1,
                           [st EXCEPT !.current = <<>>,
                                      !.previous_was_empty = TRUE],
                           out1)
         ELSE PrettifyFrom(cs, i + 1,
                  [current |-> st.current \o cs[i],
                   previous_was_empty |-> FALSE,
                   paragraph_already_handled |-> FALSE],
                  out)

\* The same loop without the paragraph_already_handled flag: a third empty
\* chunk in a row yields a second marker.
RECURSIVE PrettifyFromNoFlag(_, _, _, _)
PrettifyFromNoFlag(cs, i, st, out) ==
    IF i > Len(cs)
    THEN IF st.current # <<>> THEN Append(out, st.current) ELSE out
    ELSE IF cs[i] = <<>>
         THEN LET out1 == IF st.current # <<>> THEN Append(out, st.current) ELSE out
              IN  IF st.previous_was_empty
                  THEN PrettifyFromNoFlag(cs, i + 1, [st EXCEPT !.current = <<>>],
                           Append(out1, PARAGRAPH_BREAK))
                  ELSE PrettifyFromNoFlag(cs, i + 1,
                           [st EXCEPT !.current = <<>>, !.previous_was_empty = TRUE],
                           out1)
         ELSE PrettifyFromNoFlag(cs, i + 1,
                  [current |-> st.current \o cs[i],
                   previous_was_empty |-> FALSE,
                   paragraph_already_handled |-> FALSE],
                  out)

PrettifyLinebreaksNoFlag(cs) ==
    PrettifyFromNoFlag(cs, 1,
        [current |-> <<>>, previous_was_empty |-> FALSE,
         paragraph_already_handled |-> FALSE], <<>>)

\* NodeHTMLParser._prettify_linebreaks: the strings it yields, in order
PrettifyLinebreaks(cs) ==
    PrettifyFrom(cs, 1,
        [current |-> <<>>, previous_was_empty |-> FALSE,
         paragraph_already_handled |-> FALSE], <<>>)

\* NodeHTMLParser.content
Content(cs, raw) ==
    IF raw # <<>> THEN raw
    ELSE The({Strip(Concat(yields)) : yields \in {PrettifyLinebreaks(cs)}})

\* NodeHTMLParser.__init__: the state of a new parser.  Of HTMLParser,
\* rawdata is the buffer, the text fed to the parser that it has not handled
\* yet, and cdata_elem the element (script or style) whose start tag it has
\* met and whose end tag it waits for, if there is one.
ClearedParser ==
    [chunks |-> <<>>, raw_data |-> <<>>, within_tag |-> FALSE, rawdata |-> <<>>,
     cdata_elem |-> None]

\* The clear() that also resets HTMLParser: its buffer and its mode.
ClearAndReset(ps) == ClearedParser

\* NodeHTMLParser.clear: the three fields it assigns; the buffer and the
\* mode of HTMLParser are left
Clear(ps) == [ps EXCEPT !.chunks = <<>>, !.raw_data = <<>>, !.within_tag = FALSE]

DIV == <<"d", "i", "v">>
BLOCKQUOTE == <<"b", "l", "o", "c", "k", "q", "u", "o", "t", "e">>

\* NodeHTMLParser.handle_starttag
HandleStarttag(ps, tag) ==
    IF tag \in {DIV, BLOCKQUOTE}
    THEN [ps EXCEPT !.chunks = Append(@, ps.raw_data), !.within_tag = TRUE]
    ELSE ps

\* NodeHTMLParser.handle_endtag
HandleEndtag(ps, tag) ==
    IF tag \in {DIV, BLOCKQUOTE}
    THEN [ps EXCEPT !.chunks = Append(@, ps.raw_data), !.raw_data = <<>>,
                    !.within_tag = FALSE]
    ELSE ps

\* NodeHTMLParser.handle_data
HandleData(ps, data) == [ps EXCEPT !.raw_data = data]

\* The events HTMLParser.feed makes of markup: a start tag <name ...>, an
\* end tag </name>, and the text between tags (one event per stretch of
\* text, and one for a "<" that opens nothing).  What opens a tag that is
\* not closed is left in the buffer.  After the start tag of script or
\* style the parser is in CDATA mode: up to the end tag of that element
\* all is text, and as long as the end tag has not come nothing is handled.
\* Comments, declarations, character references and quoted attribute values
\* are left out: the markup has no "&", "!", "?", "=", no quotes, and no
\* white space after "</" but in the end tag that ends the CDATA mode.
StartTag(name) == [type |-> "starttag", tag |-> name]
EndTag(name) == [type |-> "endtag", tag |-> name]
Data(text) == [type |-> "data", data |-> text]

\* the first index from i on at which s holds c, or 0
IndexFrom(s, c, i) ==
    LET found == {k \in i..Len(s) : s[k] = c}
    IN  IF found = {} THEN 0 ELSE Min(found)

\* a character of the name of a tag (tagfind_tolerant of html.parser)
IsNameChar(c) == c \notin {" ", "\t", "\n", "\r", "\f", "/", ">"}

\* the name of a tag, lower-cased: what its text holds before the first
\* white space, "/" or ">"
RECURSIVE TagName(_)
TagName(s) ==
    IF s = <<>> \/ ~IsNameChar(Head(s)) THEN <<>>
    ELSE <<LowerChar(Head(s))>> \o TagName(Tail(s))

\* a tag opens at s[i]: "<" and a letter, or "</" and a letter, closed by ">"
TagOpensAt(s, i) ==
    /\ s[i] = "<"
    /\ IndexFrom(s, ">", i) # 0
    /\ \/ i + 1 <= Len(s) /\ (IsLowerChar(s[i + 1]) \/ IsUpperChar(s[i + 1]))
       \/ /\ i + 2 <= Len(s)
          /\ s[i + 1] = "/"
          /\ IsLowerChar(s[i + 2]) \/ IsUpperChar(s[i + 2])

\* the events so far, and the text before position i if there is some
Flushed(text, out) == IF text # <<>> THEN Append(out, Data(text)) ELSE out

\* "<" at s[i] opens a tag that the markup does not close: it is the last
\* character, or a letter or "/" follows and no ">" does
Incomplete(s, i) ==
    /\ s[i] = "<"
    /\ \/ i = Len(s)
       \/ /\ IsLowerChar(s[i + 1]) \/ IsUpperChar(s[i + 1]) \/ s[i + 1] = "/"
          /\ IndexFrom(s, ">", i) = 0

SCRIPT == <<"s", "c", "r", "i", "p", "t">>
STYLE == <<"s", "t", "y", "l", "e">>

\* HTMLParser.CDATA_CONTENT_ELEMENTS
CDATA_CONTENT_ELEMENTS == {SCRIPT, STYLE}

\* white space for the regular expressions of html.parser
IsMarkupSpace(c) == c \in {" ", "\t", "\n", "\r", "\f"}

\* the first index from i on at which s holds no white space; Len(s) + 1 if
\* white space is all there is
SkipSpace(s, i) == Min({k \in i..(Len(s) + 1) : k > Len(s) \/ ~IsMarkupSpace(s[k])})

\* What set_cdata_mode(elem) makes of HTMLParser.interesting: the end tag
\* of the element, in either case, with white space before and after the
\* name.  The index of the ">" of such an end tag that opens at s[j], or 0.
CdataEndAt(s, j, elem) ==
    IF j + 1 > Len(s) \/ s[j] # "<" \/ s[j + 1] # "/" THEN 0
    ELSE LET name == SkipSpace(s, j + 2)
             after == name + Len(elem)
         IN  IF after - 1 > Len(s) \/ TagName(SubSeq(s, name, after - 1)) # elem THEN 0
             ELSE LET close == SkipSpace(s, after)
                  IN  IF close <= Len(s) /\ s[close] = ">" THEN close ELSE 0

\* HTMLParser.goahead(0) from position i, the parser being in the mode
\* cdata_elem: the events, what stays in the buffer, and the mode the
\* parser is left in
RECURSIVE TokenizeFrom(_, _, _, _, _)
TokenizeFrom(s, i, text, out, mode) ==
    IF i > Len(s)
    THEN [events |-> Flushed(text, out), rest |-> <<>>, cdata_elem |-> mode]
    ELSE IF IsSome(mode)
         THEN LET ends == {j \in i..Len(s) : CdataEndAt(s, j, Get(mode)) # 0}
              IN  IF ends = {}
                  THEN [events |-> out, rest |-> SubSeq(s, i, Len(s)),
                        cdata_elem |-> mode]
                  ELSE TokenizeFrom(s, CdataEndAt(s, Min(ends), Get(mode)) + 1, <<>>,
                                    Append(Flushed(SubSeq(s, i, Min(ends) - 1), out),
                                           EndTag(Get(mode))),
                                    None)
    ELSE IF s[i] # "<" THEN TokenizeFrom(s, i + 1, Append(text, s[i]), out, mode)
    ELSE IF TagOpensAt(s, i)
         THEN LET close == IndexFrom(s, ">", i)
                  name == IF s[i + 1] = "/"
                          THEN TagName(SubSeq(s, i + 2, close - 1))
                          ELSE TagName(SubSeq(s, i + 1, close - 1))
                  evs == IF s[i + 1] = "/" THEN <<EndTag(name)>>
                         ELSE IF s[close - 1] = "/"
                              THEN <<StartTag(name), EndTag(name)>>
                              ELSE <<StartTag(name)>>
                  entered == IF evs = <<StartTag(name)>> /\ name \in CDATA_CONTENT_ELEMENTS
                             THEN Some(name) ELSE None
              IN  TokenizeFrom(s, close + 1, <<>>, Flushed(text, out) \o evs, entered)
    ELSE IF Incomplete(s, i)
         THEN [events |-> Flushed(text, out), rest |-> SubSeq(s, i, Len(s)),
               cdata_elem |-> mode]
    ELSE IF s[i + 1] = "/"
         THEN TokenizeFrom(s, IndexFrom(s, ">", i) + 1, <<>>, Flushed(text, out), mode)
    ELSE TokenizeFrom(s, i + 1, <<>>, Append(Flushed(text, out), Data(<<"<">>)), mode)

\* HTMLParser.goahead(0) on the buffer s of a parser in the mode cdata_elem
Tokenize(mode, s) ==
    The({TokenizeFrom(markup, 1, <<>>, <<>>, mode) : markup \in {s}})

\* one event delivered to the handlers of NodeHTMLParser
Handle(ps, ev) ==
    CASE ev.type = "starttag" -> HandleStarttag(ps, ev.tag)
      [] ev.type = "endtag" -> HandleEndtag(ps, ev.tag)
      [] ev.type = "data" -> HandleData(ps, ev.data)

\* HTMLParser.feed: the handlers called on the events of the markup, in order
RECURSIVE FeedEvents(_, _)
FeedEvents(ps, evs) ==
    IF evs = <<>> THEN ps
    ELSE The({FeedEvents(handled, rest) : handled \in {Handle(ps, Head(evs))},
                                         rest \in {Tail(evs)}})

\* HTMLParser.feed: the markup is added to the buffer, what can be handled
\* of the buffer is handled in the mode the parser is in, the rest is kept
Feed(ps, markup) ==
    The({[FeedEvents(ps, tokens.events) EXCEPT !.rawdata = tokens.rest,
                                               !.cdata_elem = tokens.cdata_elem] :
            tokens \in {Tokenize(ps.cdata_elem, ps.rawdata \o markup)}})

---------------------------------------------------------------------------
(* The vocabulary of RiC-O *)

\* _ric_classes
RicClasses ==
    { <<"A", "c", "c", "u", "m", "u", "l", "a", "t", "i", "o", "n", "R", "e", "l", "a", "t", "i", "o", "n">>,
      <<"A", "c", "t", "i", "v", "i", "t", "y">>,
      <<"A", "c", "t", "i", "v", "i", "t", "y", "D", "o", "c", "u", "m", "e", "n", "t", "a", "t", "i", "o", "n", "R", "e", "l", "a", "t", "i", "o", "n">>,
      <<"A", "c", "t", "i", "v", "i", "t", "y", "T", "y", "p", "e">>,
      <<"A", "g", "e", "n", "t">>,
      <<"A", "g", "e", "n", "t", "C", "o", "n", "t", "r", "o", "l", "R", "e", "l", "a", "t", "i", "o", "n">>,
      <<"A", "g", "e", "n", "t", "H", "i", "e", "r", "a", "r", "c", "h", "i", "c", "a", "l", "R", "e", "l", "a", "t", "i", "o", "n">>,
      <<"A", "g", "e", "n", "t", "N", "a", "m", "e">>,
      <<"A", "g", "e", "n", "t", "T", "e", "m", "p", "o", "r", "a", "l", "R", "e", "l", "a", "t", "i", "o", "n">>,
      <<"A", "g", "e", "n", "t", "T", "o", "A", "g", "e", "n", "t", "R", "e", "l", "a", "t", "i", "o", "n">>,
      <<"A", "p", "p", "e", "l", "l", "a", "t", "i", "o", "n">>,
      <<"A", "p", "p", "e", "l", "l", "a", "t", "i", "o", "n", "R", "e", "l", "a", "t", "i", "o", "n">>,
      <<"A", "u", "t", "h", "o", "r", "i", "t", "y", "R", "e", "l", "a", "t", "i", "o", "n">>,
      <<"A", "u", "t", "h", "o", "r", "s", "h", "i", "p", "R", "e", "l", "a", "t", "i", "o", "n">>,
      <<"C", "a", "r", "r", "i", "e", "r", "E", "x", "t", "e", "n", "t">>,
      <<"C", "a", "r", "r", "i", "e", "r", "T", "y", "p", "e">>,
      <<"C", "h", "i", "l", "d", "R", "e", "l", "a", "t", "i", "o", "n">>,
      <<"C", "o", "n", "c", "e", "p", "t">>,
      <<"C", "o", "n", "t", "e", "n", "t", "T", "y", "p", "e">>,
      <<"C", "o", "o", "r", "d", "i", "n", "a", "t", "e", "s">>,
      <<"C", "o", "r", "p", "o", "r", "a", "t", "e", "B", "o", "d", "y">>,
      <<"C", "o", "r", "p", "o", "r", "a", "t", "e", "B", "o", "d", "y", "T", "y", "p", "e">>,
      <<"C", "o", "r", "r", "e", "s", "p", "o", "n", "d", "e", "n", "c", "e", "R", "e", "l", "a", "t", "i", "o", "n">>,
      <<"C", "r", "e", "a", "t", "i", "o", "n", "R", "e", "l", "a", "t", "i", "o", "n">>,
      <<"D", "a", "t", "e">>,
      <<"D", "a", "t", "e", "T", "y", "p", "e">>,
      <<"D", "e", "m", "o", "g", "r", "a", "p", "h", "i", "c", "G", "r", "o", "u", "p">>,
      <<"D", "e", "r", "i", "v", "a", "t", "i", "o", "n", "R", "e", "l", "a", "t", "i", "o", "n">>,
      <<"D", "e", "s", "c", "e", "n", "d", "a", "n", "c", "e", "R", "e", "l", "a", "t", "i", "o", "n">>,
      <<"D", "o", "c", "u", "m", "e", "n", "t", "a", "r", "y", "F", "o", "r", "m", "T", "y", "p", "e">>,
      <<"E", "v", "e", "n", "t">>,
      <<"E", "v", "e", "n", "t", "R", "e", "l", "a", "t", "i", "o", "n">>,
      <<"E", "v", "e", "n", "t", "T", "y", "p", "e">>,
      <<"E", "x", "t", "e", "n", "t">>,
      <<"E", "x", "t", "e", "n", "t", "T", "y", "p", "e">>,
      <<"F", "a", "m", "i", "l", "y">>,
      <<"F", "a", "m", "i", "l", "y", "R", "e", "l", "a", "t", "i", "o", "n">>,
      <<"F", "a", "m", "i", "l", "y", "T", "y", "p", "e">>,
      <<"F", "u", "n", "c", "t", "i", "o", "n", "a", "l", "E", "q", "u", "i", "v", "a", "l", "e", "n", "c", "e", "R", "e", "l", "a", "t", "i", "o", "n">>,
      <<"G", "r", "o", "u", "p">>,
      <<"G", "r", "o", "u", "p", "S", "u", "b", "d", "i", "v", "i", "s", "i", "o", "n", "R", "e", "l", "a", "t", "i", "o", "n">>,
      <<"I", "d", "e", "n", "t", "i", "f", "i", "e", "r">>,
      <<"I", "d", "e", "n", "t", "i", "f", "i", "e", "r", "T", "y", "p", "e">>,
      <<"I", "n", "s", "t", "a", "n", "t", "i", "a", "t", "i", "o", "n">>,
      <<"I", "n", "s", "t", "a", "n", "t", "i", "a", "t", "i", "o", "n", "E", "x", "t", "e", "n", "t">>,
      <<"I", "n", "s", "t", "a", "n", "t", "i", "a", "t", "i", "o", "n", "T", "o", "I", "n", "s", "t", "a", "n", "t", "i", "a", "t", "i", "o", "n", "R", "e", "l", "a", "t", "i", "o", "n">>,
      <<"I", "n", "t", "e", "l", "l", "e", "c", "t", "u", "a", "l", "P", "r", "o", "p", "e", "r", "t", "y", "R", "i", "g", "h", "t", "s", "R", "e", "l", "a", "t", "i", "o", "n">>,
      <<"K", "n", "o", "w", "i", "n", "g", "O", "f", "R", "e", "l", "a", "t", "i", "o", "n">>,
      <<"K", "n", "o", "w", "i", "n", "g", "R", "e", "l", "a", "t", "i", "o", "n">>,
      <<"L", "a", "n", "g", "u", "a", "g", "e">>,
      <<"L", "e", "a", "d", "e", "r", "s", "h", "i", "p", "R", "e", "l", "a", "t", "i", "o", "n">>,
      <<"L", "e", "g", "a", "l", "S", "t", "a", "t", "u", "s">>,
      <<"M", "a", "n", "a", "g", "e", "m", "e", "n", "t", "R", "e", "l", "a", "t", "i", "o", "n">>,
      <<"M", "a", "n", "d", "a", "t", "e">>,
      <<"M", "a", "n", "d", "a", "t", "e", "R", "e", "l", "a", "t", "i", "o", "n">>,
      <<"M", "a", "n", "d", "a", "t", "e", "T", "y", "p", "e">>,
      <<"M", "e", "c", "h", "a", "n", "i", "s", "m">>,
      <<"M", "e", "m", "b", "e", "r", "s", "h", "i", "p", "R", "e", "l", "a", "t", "i", "o", "n">>,
      <<"M", "i", "g", "r", "a", "t", "i", "o", "n", "R", "e", "l", "a", "t", "i", "o", "n">>,
      <<"N", "a", "m", "e">>,
      <<"O", "c", "c", "u", "p", "a", "t", "i", "o", "n", "T", "y", "p", "e">>,
      <<"O", "r", "g", "a", "n", "i", "c", "O", "r", "F", "u", "n", "c", "t", "i", "o", "n", "a", "l", "P", "r", "o", "v", "e", "n", "a", "n", "c", "e", "R", "e", "l", "a", "t", "i", "o", "n">>,
      <<"O", "r", "g", "a", "n", "i", "c", "P", "r", "o", "v", "e", "n", "a", "n", "c", "e", "R", "e", "l", "a", "t", "i", "o", "n">>,
      <<"O", "w", "n", "e", "r", "s", "h", "i", "p", "R", "e", "l", "a", "t", "i", "o", "n">>,
      <<"P", "e", "r", "f", "o", "r", "m", "a", "n", "c", "e", "R", "e", "l", "a", "t", "i", "o", "n">>,
      <<"P", "e", "r", "s", "o", "n">>,
      <<"P", "h", "y", "s", "i", "c", "a", "l", "L", "o", "c", "a", "t", "i", "o", "n">>,
      <<"P", "l", "a", "c", "e">>,
      <<"P", "l", "a", "c", "e", "N", "a", "m", "e">>,
      <<"P", "l", "a", "c", "e", "R", "e", "l", "a", "t", "i", "o", "n">>,
      <<"P", "l", "a", "c", "e", "T", "y", "p", "e">>,
      <<"P", "o", "s", "i", "t", "i", "o", "n">>,
      <<"P", "o", "s", "i", "t", "i", "o", "n", "H", "o", "l", "d", "i", "n", "g", "R", "e", "l", "a", "t", "i", "o", "n">>,
      <<"P", "o", "s", "i", "t", "i", "o", "n", "T", "o", "G", "r", "o", "u", "p", "R", "e", "l", "a", "t", "i", "o", "n">>,
      <<"P", "r", "o", "d", "u", "c", "t", "i", "o", "n", "T", "e", "c", "h", "n", "i", "q", "u", "e", "T", "y", "p", "e">>,
      <<"P", "r", "o", "x", "y">>,
      <<"R", "e", "c", "o", "r", "d">>,
      <<"R", "e", "c", "o", "r", "d", "P", "a", "r", "t">>,
      <<"R", "e", "c", "o", "r", "d", "R", "e", "s", "o", "u", "r", "c", "e">>,
      <<"R", "e", "c", "o", "r", "d", "R", "e", "s", "o", "u", "r", "c", "e", "E", "x", "t", "e", "n", "t">>,
      <<"R", "e", "c", "o", "r", "d", "R", "e", "s", "o", "u", "r", "c", "e", "G", "e", "n", "e", "t", "i", "c", "R", "e", "l", "a", "t", "i", "o", "n">>,
      <<"R", "e", "c", "o", "r", "d", "R", "e", "s", "o", "u", "r", "c", "e", "H", "o", "l", "d", "i", "n", "g", "R", "e", "l", "a", "t", "i", "o", "n">>,
      <<"R", "e", "c", "o", "r", "d", "R", "e", "s", "o", "u", "r", "c", "e", "T", "o", "I", "n", "s", "t", "a", "n", "t", "i", "a", "t", "i", "o", "n", "R", "e", "l", "a", "t", "i", "o", "n">>,
      <<"R", "e", "c", "o", "r", "d", "R", "e", "s", "o", "u", "r", "c", "e", "T", "o", "R", "e", "c", "o", "r", "d", "R", "e", "s", "o", "u", "r", "c", "e", "R", "e", "l", "a", "t", "i", "o", "n">>,
      <<"R", "e", "c", "o", "r", "d", "S", "e", "t">>,
      <<"R", "e", "c", "o", "r", "d", "S", "e", "t", "T", "y", "p", "e">>,
      <<"R", "e", "c", "o", "r", "d", "S", "t", "a", "t", "e">>,
      <<"R", "e", "l", "a", "t", "i", "o", "n">>,
      <<"R", "e", "p", "r", "e", "s", "e", "n", "t", "a", "t", "i", "o", "n", "T", "y", "p", "e">>,
      <<"R", "o", "l", "e", "T", "y", "p", "e">>,
      <<"R", "u", "l", "e">>,
      <<"R", "u", "l", "e", "R", "e", "l", "a", "t", "i", "o", "n">>,
      <<"R", "u", "l", "e", "T", "y", "p", "e">>,
      <<"S", "e", "q", "u", "e", "n", "t", "i", "a", "l", "R", "e", "l", "a", "t", "i", "o", "n">>,
      <<"S", "i", "b", "l", "i", "n", "g", "R", "e", "l", "a", "t", "i", "o", "n">>,
      <<"S", "p", "o", "u", "s", "e", "R", "e", "l", "a", "t", "i", "o", "n">>,
      <<"T", "e", "a", "c", "h", "i", "n", "g", "R", "e", "l", "a", "t", "i", "o", "n">>,
      <<"T", "e", "m", "p", "o", "r", "a", "l", "R", "e", "l", "a", "t", "i", "o", "n">>,
      <<"T", "h", "i", "n", "g">>,
      <<"T", "i", "t", "l", "e">>,
      <<"T", "y", "p", "e">>,
      <<"T", "y", "p", "e", "R", "e", "l", "a", "t", "i", "o", "n">>,
      <<"U", "n", "i", "t", "O", "f", "M", "e", "a", "s", "u", "r", "e", "m", "e", "n", "t">>,
      <<"W", "h", "o", "l", "e", "P", "a", "r", "t", "R", "e", "l", "a", "t", "i", "o", "n">>,
      <<"W", "o", "r", "k", "R", "e", "l", "a", "t", "i", "o", "n">> }

\* _ric_object_properties
RicObjectProperties ==
    { <<"a", "f", "f", "e", "c", "t", "s", "O", "r", "A", "f", "f", "e", "c", "t", "e", "d">>,
      <<"a", "g", "e", "n", "t", "H", "a", "s", "O", "r", "H", "a", "d", "L", "o", "c", "a", "t", "i", "o", "n">>,
      <<"a", "u", "t", "h", "o", "r", "i", "z", "e", "d", "B", "y">>,
      <<"a", "u", "t", "h", "o", "r", "i", "z", "e", "s">>,
      <<"c", "o", "n", "t", "a", "i", "n", "e", "d">>,
      <<"c", "o", "n", "t", "a", "i", "n", "s", "O", "r", "C", "o", "n", "t", "a", "i", "n", "e", "d">>,
      <<"c", "o", "n", "t", "a", "i", "n", "s", "T", "r", "a", "n", "s", "i", "t", "i", "v", "e">>,
      <<"d", "e", "s", "c", "r", "i", "b", "e", "s", "O", "r", "D", "e", "s", "c", "r", "i", "b", "e", "d">>,
      <<"d", "i", "r", "e", "c", "t", "l", "y", "C", "o", "n", "t", "a", "i", "n", "s">>,
      <<"d", "i", "r", "e", "c", "t", "l", "y", "F", "o", "l", "l", "o", "w", "s", "I", "n", "S", "e", "q", "u", "e", "n", "c", "e">>,
      <<"d", "i", "r", "e", "c", "t", "l", "y", "I", "n", "c", "l", "u", "d", "e", "s">>,
      <<"d", "i", "r", "e", "c", "t", "l", "y", "P", "r", "e", "c", "e", "d", "e", "s", "I", "n", "S", "e", "q", "u", "e", "n", "c", "e">>,
      <<"d", "o", "c", "u", "m", "e", "n", "t", "e", "d", "B", "y">>,
      <<"d", "o", "c", "u", "m", "e", "n", "t", "s">>,
      <<"e", "x", "i", "s", "t", "s", "O", "r", "E", "x", "i", "s", "t", "e", "d", "I", "n">>,
      <<"e", "x", "p", "r", "e", "s", "s", "e", "s", "O", "r", "E", "x", "p", "r", "e", "s", "s", "e", "d">>,
      <<"f", "o", "l", "l", "o", "w", "e", "d", "I", "n", "S", "e", "q", "u", "e", "n", "c", "e">>,
      <<"f", "o", "l", "l", "o", "w", "s", "I", "n", "S", "e", "q", "u", "e", "n", "c", "e", "T", "r", "a", "n", "s", "i", "t", "i", "v", "e">>,
      <<"f", "o", "l", "l", "o", "w", "s", "I", "n", "T", "i", "m", "e">>,
      <<"f", "o", "l", "l", "o", "w", "s", "O", "r", "F", "o", "l", "l", "o", "w", "e", "d">>,
      <<"h", "a", "d", "C", "o", "m", "p", "o", "n", "e", "n", "t">>,
      <<"h", "a", "d", "C", "o", "n", "s", "t", "i", "t", "u", "e", "n", "t">>,
      <<"h", "a", "d", "P", "a", "r", "t">>,
      <<"h", "a", "d", "S", "u", "b", "d", "i", "v", "i", "s", "i", "o", "n">>,
      <<"h", "a", "d", "S", "u", "b", "e", "v", "e", "n", "t">>,
      <<"h", "a", "d", "S", "u", "b", "o", "r", "d", "i", "n", "a", "t", "e">>,
      <<"h", "a", "s", "A", "c", "c", "u", "m", "u", "l", "a", "t", "o", "r">>,
      <<"h", "a", "s", "A", "c", "t", "i", "v", "i", "t", "y", "T", "y", "p", "e">>,
      <<"h", "a", "s", "A", "d", "d", "r", "e", "s", "s", "e", "e">>,
      <<"h", "a", "s", "A", "n", "c", "e", "s", "t", "o", "r">>,
      <<"h", "a", "s", "A", "u", "t", "h", "o", "r">>,
      <<"h", "a", "s", "B", "e", "g", "i", "n", "n", "i", "n", "g", "D", "a", "t", "e">>,
      <<"h", "a", "s", "B", "i", "r", "t", "h", "D", "a", "t", "e">>,
      <<"h", "a", "s", "B", "i", "r", "t", "h", "P", "l", "a", "c", "e">>,
      <<"h", "a", "s", "C", "a", "r", "r", "i", "e", "r", "T", "y", "p", "e">>,
      <<"h", "a", "s", "C", "h", "i", "l", "d">>,
      <<"h", "a", "s", "C", "o", "l", "l", "e", "c", "t", "o", "r">>,
      <<"h", "a", "s", "C", "o", "m", "p", "o", "n", "e", "n", "t", "T", "r", "a", "n", "s", "i", "t", "i", "v", "e">>,
      <<"h", "a", "s", "C", "o", "n", "s", "t", "i", "t", "u", "e", "n", "t", "T", "r", "a", "n", "s", "i", "t", "i", "v", "e">>,
      <<"h", "a", "s", "C", "o", "n", "t", "e", "n", "t", "O", "f", "T", "y", "p", "e">>,
      <<"h", "a", "s", "C", "o", "p", "y">>,
      <<"h", "a", "s", "C", "r", "e", "a", "t", "i", "o", "n", "D", "a", "t", "e">>,
      <<"h", "a", "s", "C", "r", "e", "a", "t", "o", "r">>,
      <<"h", "a", "s", "D", "a", "t", "e", "T", "y", "p", "e">>,
      <<"h", "a", "s", "D", "e", "a", "t", "h", "D", "a", "t", "e">>,
      <<"h", "a", "s", "D", "e", "a", "t", "h", "P", "l", "a", "c", "e">>,
      <<"h", "a", "s", "D", "e", "s", "c", "e", "n", "d", "a", "n", "t">>,
      <<"h", "a", "s", "D", "e", "s", "t", "r", "u", "c", "t", "i", "o", "n", "D", "a", "t", "e">>,
      <<"h", "a", "s", "D", "i", "r", "e", "c", "t", "C", "o", "m", "p", "o", "n", "e", "n", "t">>,
      <<"h", "a", "s", "D", "i", "r", "e", "c", "t", "C", "o", "n", "s", "t", "i", "t", "u", "e", "n", "t">>,
      <<"h", "a", "s", "D", "i", "r", "e", "c", "t", "P", "a", "r", "t">>,
      <<"h", "a", "s", "D", "i", "r", "e", "c", "t", "S", "u", "b", "d", "i", "v", "i", "s", "i", "o", "n">>,
      <<"h", "a", "s", "D", "i", "r", "e", "c", "t", "S", "u", "b", "e", "v", "e", "n", "t">>,
      <<"h", "a", "s", "D", "i", "r", "e", "c", "t", "S", "u", "b", "o", "r", "d", "i", "n", "a", "t", "e">>,
      <<"h", "a", "s", "D", "o", "c", "u", "m", "e", "n", "t", "a", "r", "y", "F", "o", "r", "m", "T", "y", "p", "e">>,
      <<"h", "a", "s", "D", "r", "a", "f", "t">>,
      <<"h", "a", "s", "E", "n", "d", "D", "a", "t", "e">>,
      <<"h", "a", "s", "E", "v", "e", "n", "t", "T", "y", "p", "e">>,
      <<"h", "a", "s", "E", "x", "t", "e", "n", "t">>,
      <<"h", "a", "s", "E", "x", "t", "e", "n", "t", "T", "y", "p", "e">>,
      <<"h", "a", "s", "F", "a", "m", "i", "l", "y", "A", "s", "s", "o", "c", "i", "a", "t", "i", "o", "n", "W", "i", "t", "h">>,
      <<"h", "a", "s", "F", "a", "m", "i", "l", "y", "T", "y", "p", "e">>,
      <<"h", "a", "s", "G", "e", "n", "e", "t", "i", "c", "L", "i", "n", "k", "T", "o", "R", "e", "c", "o", "r", "d", "R", "e", "s", "o", "u", "r", "c", "e">>,
      <<"h", "a", "s", "I", "d", "e", "n", "t", "i", "f", "i", "e", "r", "T", "y", "p", "e">>,
      <<"h", "a", "s", "M", "o", "d", "i", "f", "i", "c", "a", "t", "i", "o", "n", "D", "a", "t", "e">>,
      <<"h", "a", "s", "O", "r", "H", "a", "d", "A", "g", "e", "n", "t", "N", "a", "m", "e">>,
      <<"h", "a", "s", "O", "r", "H", "a", "d", "A", "l", "l", "M", "e", "m", "b", "e", "r", "s", "W", "i", "t", "h", "C", "a", "t", "e", "g", "o", "r", "y">>,
      <<"h", "a", "s", "O", "r", "H", "a", "d", "A", "l", "l", "M", "e", "m", "b", "e", "r", "s", "W", "i", "t", "h", "C", "o", "n", "t", "e", "n", "t", "T", "y", "p", "e">>,
      <<"h", "a", "s", "O", "r", "H", "a", "d", "A", "l", "l", "M", "e", "m", "b", "e", "r", "s", "W", "i", "t", "h", "C", "r", "e", "a", "t", "i", "o", "n", "D", "a", "t", "e">>,
      <<"h", "a", "s", "O", "r", "H", "a", "d", "A", "l", "l", "M", "e", "m", "b", "e", "r", "s", "W", "i", "t", "h", "D", "o", "c", "u", "m", "e", "n", "t", "a", "r", "y", "F", "o", "r", "m", "T", "y", "p", "e">>,
      <<"h", "a", "s", "O", "r", "H", "a", "d", "A", "l", "l", "M", "e", "m", "b", "e", "r", "s", "W", "i", "t", "h", "L", "a", "n", "g", "u", "a", "g", "e">>,
      <<"h", "a", "s", "O", "r", "H", "a", "d", "A", "l", "l", "M", "e", "m", "b", "e", "r", "s", "W", "i", "t", "h", "L", "e", "g", "a", "l", "S", "t", "a", "t", "u", "s">>,
      <<"h", "a", "s", "O", "r", "H", "a", "d", "A", "l", "l", "M", "e", "m", "b", "e", "r", "s", "W", "i", "t", "h", "R", "e", "c", "o", "r", "d", "S", "t", "a", "t", "e">>,
      <<"h", "a", "s", "O", "r", "H", "a", "d", "A", "n", "a", "l", "o", "g", "u", "e", "I", "n", "s", "t", "a", "n", "t", "i", "a", "t", "i", "o", "n">>,
      <<"h", "a", "s", "O", "r", "H", "a", "d", "A", "p", "p", "e", "l", "l", "a", "t", "i", "o", "n">>,
      <<"h", "a", "s", "O", "r", "H", "a", "d", "A", "u", "t", "h", "o", "r", "i", "t", "y", "O", "v", "e", "r">>,
      <<"h", "a", "s", "O", "r", "H", "a", "d", "C", "a", "t", "e", "g", "o", "r", "y">>,
      <<"h", "a", "s", "O", "r", "H", "a", "d", "C", "o", "m", "p", "o", "n", "e", "n", "t">>,
      <<"h", "a", "s", "O", "r", "H", "a", "d", "C", "o", "n", "s", "t", "i", "t", "u", "e", "n", "t">>,
      <<"h", "a", "s", "O", "r", "H", "a", "d", "C", "o", "n", "t", "r", "o", "l", "l", "e", "r">>,
      <<"h", "a", "s", "O", "r", "H", "a", "d", "C", "o", "o", "r", "d", "i", "n", "a", "t", "e", "s">>,
      <<"h", "a", "s", "O", "r", "H", "a", "d", "C", "o", "r", "p", "o", "r", "a", "t", "e", "B", "o", "d", "y", "T", "y", "p", "e">>,
      <<"h", "a", "s", "O", "r", "H", "a", "d", "C", "o", "r", "r", "e", "s", "p", "o", "n", "d", "e", "n", "t">>,
      <<"h", "a", "s", "O", "r", "H", "a", "d", "D", "e", "m", "o", "g", "r", "a", "p", "h", "i", "c", "G", "r", "o", "u", "p">>,
      <<"h", "a", "s", "O", "r", "H", "a", "d", "D", "e", "r", "i", "v", "e", "d", "I", "n", "s", "t", "a", "n", "t", "i", "a", "t", "i", "o", "n">>,
      <<"h", "a", "s", "O", "r", "H", "a", "d", "D", "i", "g", "i", "t", "a", "l", "I", "n", "s", "t", "a", "n", "t", "i", "a", "t", "i", "o", "n">>,
      <<"h", "a", "s", "O", "r", "H", "a", "d", "E", "m", "p", "l", "o", "y", "e", "r">>,
      <<"h", "a", "s", "O", "r", "H", "a", "d", "H", "o", "l", "d", "e", "r">>,
      <<"h", "a", "s", "O", "r", "H", "a", "d", "I", "d", "e", "n", "t", "i", "f", "i", "e", "r">>,
      <<"h", "a", "s", "O", "r", "H", "a", "d", "I", "n", "s", "t", "a", "n", "t", "i", "a", "t", "i", "o", "n">>,
      <<"h", "a", "s", "O", "r", "H", "a", "d", "I", "n", "t", "e", "l", "l", "e", "c", "t", "u", "a", "l", "P", "r", "o", "p", "e", "r", "t", "y", "R", "i", "g", "h", "t", "s", "H", "o", "l", "d", "e", "r">>,
      <<"h", "a", "s", "O", "r", "H", "a", "d", "J", "u", "r", "i", "s", "d", "i", "c", "t", "i", "o", "n">>,
      <<"h", "a", "s", "O", "r", "H", "a", "d", "L", "a", "n", "g", "u", "a", "g", "e">>,
      <<"h", "a", "s", "O", "r", "H", "a", "d", "L", "e", "a", "d", "e", "r">>,
      <<"h", "a", "s", "O", "r", "H", "a", "d", "L", "e", "g", "a", "l", "S", "t", "a", "t", "u", "s">>,
      <<"h", "a", "s", "O", "r", "H", "a", "d", "L", "o", "c", "a", "t", "i", "o", "n">>,
      <<"h", "a", "s", "O", "r", "H", "a", "d", "M", "a", "i", "n", "S", "u", "b", "j", "e", "c", "t">>,
      <<"h", "a", "s", "O", "r", "H", "a", "d", "M", "a", "n", "a", "g", "e", "r">>,
      <<"h", "a", "s", "O", "r", "H", "a", "d", "M", "a", "n", "d", "a", "t", "e", "T", "y", "p", "e">>,
      <<"h", "a", "s", "O", "r", "H", "a", "d", "M", "e", "m", "b", "e", "r">>,
      <<"h", "a", "s", "O", "r", "H", "a", "d", "M", "o", "s", "t", "M", "e", "m", "b", "e", "r", "s", "W", "i", "t", "h", "C", "r", "e", "a", "t", "i", "o", "n", "D", "a", "t", "e">>,
      <<"h", "a", "s", "O", "r", "H", "a", "d", "N", "a", "m", "e">>,
      <<"h", "a", "s", "O", "r", "H", "a", "d", "O", "c", "c", "u", "p", "a", "t", "i", "o", "n", "O", "f", "T", "y", "p", "e">>,
      <<"h", "a", "s", "O", "r", "H", "a", "d", "O", "w", "n", "e", "r">>,
      <<"h", "a", "s", "O", "r", "H", "a", "d", "P", "a", "r", "t">>,
      <<"h", "a", "s", "O", "r", "H", "a", "d", "P", "a", "r", "t", "i", "c", "i", "p", "a", "n", "t">>,
      <<"h", "a", "s", "O", "r", "H", "a", "d", "P", "h", "y", "s", "i", "c", "a", "l", "L", "o", "c", "a", "t", "i", "o", "n">>,
      <<"h", "a", "s", "O", "r", "H", "a", "d", "P", "l", "a", "c", "e", "N", "a", "m", "e">>,
      <<"h", "a", "s", "O", "r", "H", "a", "d", "P", "l", "a", "c", "e", "T", "y", "p", "e">>,
      <<"h", "a", "s", "O", "r", "H", "a", "d", "P", "o", "s", "i", "t", "i", "o", "n">>,
      <<"h", "a", "s", "O", "r", "H", "a", "d", "R", "u", "l", "e", "T", "y", "p", "e">>,
      <<"h", "a", "s", "O", "r", "H", "a", "d", "S", "o", "m", "e", "M", "e", "m", "b", "e", "r", "s", "W", "i", "t", "h", "C", "a", "t", "e", "g", "o", "r", "y">>,
      <<"h", "a", "s", "O", "r", "H", "a", "d", "S", "o", "m", "e", "M", "e", "m", "b", "e", "r", "s", "W", "i", "t", "h", "C", "o", "n", "t", "e", "n", "t", "T", "y", "p", "e">>,
      <<"h", "a", "s", "O", "r", "H", "a", "d", "S", "o", "m", "e", "M", "e", "m", "b", "e", "r", "s", "W", "i", "t", "h", "C", "r", "e", "a", "t", "i", "o", "n", "D", "a", "t", "e">>,
      <<"h", "a", "s", "O", "r", "H", "a", "d", "S", "o", "m", "e", "M", "e", "m", "b", "e", "r", "s", "W", "i", "t", "h", "L", "a", "n", "g", "u", "a", "g", "e">>,
      <<"h", "a", "s", "O", "r", "H", "a", "d", "S", "o", "m", "e", "M", "e", "m", "b", "e", "r", "s", "W", "i", "t", "h", "L", "e", "g", "a", "l", "S", "t", "a", "t", "u", "s">>,
      <<"h", "a", "s", "O", "r", "H", "a", "d", "S", "o", "m", "e", "M", "e", "m", "b", "e", "r", "s", "W", "i", "t", "h", "R", "e", "c", "o", "r", "d", "S", "t", "a", "t", "e">>,
      <<"h", "a", "s", "O", "r", "H", "a", "d", "S", "o", "m", "e", "M", "e", "m", "b", "e", "r", "s", "w", "i", "t", "h", "D", "o", "c", "u", "m", "e", "n", "t", "a", "r", "y", "F", "o", "r", "m", "T", "y", "p", "e">>,
      <<"h", "a", "s", "O", "r", "H", "a", "d", "S", "p", "o", "u", "s", "e">>,
      <<"h", "a", "s", "O", "r", "H", "a", "d", "S", "t", "u", "d", "e", "n", "t">>,
      <<"h", "a", "s", "O", "r", "H", "a", "d", "S", "u", "b", "d", "i", "v", "i", "s", "i", "o", "n">>,
      <<"h", "a", "s", "O", "r", "H", "a", "d", "S", "u", "b", "e", "v", "e", "n", "t">>,
      <<"h", "a", "s", "O", "r", "H", "a", "d", "S", "u", "b", "j", "e", "c", "t">>,
      <<"h", "a", "s", "O", "r", "H", "a", "d", "S", "u", "b", "o", "r", "d", "i", "n", "a", "t", "e">>,
      <<"h", "a", "s", "O", "r", "H", "a", "d", "T", "e", "a", "c", "h", "e", "r">>,
      <<"h", "a", "s", "O", "r", "H", "a", "d", "T", "i", "t", "l", "e">>,
      <<"h", "a", "s", "O", "r", "H", "a", "d", "W", "o", "r", "k", "R", "e", "l", "a", "t", "i", "o", "n", "W", "i", "t", "h">>,
      <<"h", "a", "s", "O", "r", "g", "a", "n", "i", "c", "O", "r", "F", "u", "n", "c", "t", "i", "o", "n", "a", "l", "P", "r", "o", "v", "e", "n", "a", "n", "c", "e">>,
      <<"h", "a", "s", "O", "r", "g", "a", "n", "i", "c", "P", "r", "o", "v", "e", "n", "a", "n", "c", "e">>,
      <<"h", "a", "s", "O", "r", "i", "g", "i", "n", "a", "l">>,
      <<"h", "a", "s", "P", "a", "r", "t", "T", "r", "a", "n", "s", "i", "t", "i", "v", "e">>,
      <<"h", "a", "s", "P", "r", "o", "d", "u", "c", "t", "i", "o", "n", "T", "e", "c", "h", "n", "i", "q", "u", "e", "T", "y", "p", "e">>,
      <<"h", "a", "s", "P", "u", "b", "l", "i", "c", "a", "t", "i", "o", "n", "D", "a", "t", "e">>,
      <<"h", "a", "s", "P", "u", "b", "l", "i", "s", "h", "e", "r">>,
      <<"h", "a", "s", "R", "e", "c", "e", "i", "v", "e", "r">>,
      <<"h", "a", "s", "R", "e", "c", "o", "r", "d", "S", "e", "t", "T", "y", "p", "e">>,
      <<"h", "a", "s", "R", "e", "c", "o", "r", "d", "S", "t", "a", "t", "e">>,
      <<"h", "a", "s", "R", "e", "p", "l", "y">>,
      <<"h", "a", "s", "R", "e", "p", "r", "e", "s", "e", "n", "t", "a", "t", "i", "o", "n", "T", "y", "p", "e">>,
      <<"h", "a", "s", "S", "e", "n", "d", "e", "r">>,
      <<"h", "a", "s", "S", "i", "b", "l", "i", "n", "g">>,
      <<"h", "a", "s", "S", "u", "b", "d", "i", "v", "i", "s", "i", "o", "n", "T", "r", "a", "n", "s", "i", "t", "i", "v", "e">>,
      <<"h", "a", "s", "S", "u", "b", "e", "v", "e", "n", "t", "T", "r", "a", "n", "s", "i", "t", "i", "v", "e">>,
      <<"h", "a", "s", "S", "u", "b", "o", "r", "d", "i", "n", "a", "t", "e", "T", "r", "a", "n", "s", "i", "t", "i", "v", "e">>,
      <<"h", "a", "s", "S", "u", "c", "c", "e", "s", "s", "o", "r">>,
      <<"h", "a", "s", "U", "n", "i", "t", "O", "f", "M", "e", "a", "s", "u", "r", "e", "m", "e", "n", "t">>,
      <<"h", "a", "s", "W", "i", "t", "h", "i", "n">>,
      <<"i", "n", "c", "l", "u", "d", "e", "d">>,
      <<"i", "n", "c", "l", "u", "d", "e", "s", "O", "r", "I", "n", "c", "l", "u", "d", "e", "d">>,
      <<"i", "n", "c", "l", "u", "d", "e", "s", "T", "r", "a", "n", "s", "i", "t", "i", "v", "e">>,
      <<"i", "n", "t", "e", "r", "s", "e", "c", "t", "s">>,
      <<"i", "s", "A", "c", "c", "u", "m", "u", "l", "a", "t", "o", "r", "O", "f">>,
      <<"i", "s", "A", "c", "t", "i", "v", "i", "t", "y", "T", "y", "p", "e", "O", "f">>,
      <<"i", "s", "A", "d", "d", "r", "e", "s", "s", "e", "e", "O", "f">>,
      <<"i", "s", "A", "g", "e", "n", "t", "A", "s", "s", "o", "c", "i", "a", "t", "e", "d", "W", "i", "t", "h", "A", "g", "e", "n", "t">>,
      <<"i", "s", "A", "g", "e", "n", "t", "A", "s", "s", "o", "c", "i", "a", "t", "e", "d", "W", "i", "t", "h", "P", "l", "a", "c", "e">>,
      <<"i", "s", "A", "s", "s", "o", "c", "i", "a", "t", "e", "d", "W", "i", "t", "h", "D", "a", "t", "e">>,
      <<"i", "s", "A", "s", "s", "o", "c", "i", "a", "t", "e", "d", "W", "i", "t", "h", "E", "v", "e", "n", "t">>,
      <<"i", "s", "A", "s", "s", "o", "c", "i", "a", "t", "e", "d", "W", "i", "t", "h", "P", "l", "a", "c", "e">>,
      <<"i", "s", "A", "s", "s", "o", "c", "i", "a", "t", "e", "d", "W", "i", "t", "h", "R", "u", "l", "e">>,
      <<"i", "s", "A", "u", "t", "h", "o", "r", "O", "f">>,
      <<"i", "s", "B", "e", "g", "i", "n", "n", "i", "n", "g", "D", "a", "t", "e", "O", "f">>,
      <<"i", "s", "B", "i", "r", "t", "h", "D", "a", "t", "e", "O", "f">>,
      <<"i", "s", "B", "i", "r", "t", "h", "P", "l", "a", "c", "e", "O", "f">>,
      <<"i", "s", "C", "a", "r", "r", "i", "e", "r", "T", "y", "p", "e", "O", "f">>,
      <<"i", "s", "C", "h", "i", "l", "d", "O", "f">>,
      <<"i", "s", "C", "o", "l", "l", "e", "c", "t", "o", "r", "O", "f">>,
      <<"i", "s", "C", "o", "m", "p", "o", "n", "e", "n", "t", "O", "f", "T", "r", "a", "n", "s", "i", "t", "i", "v", "e">>,
      <<"i", "s", "C", "o", "n", "s", "t", "i", "t", "u", "e", "n", "t", "O", "f", "T", "r", "a", "n", "s", "i", "t", "i", "v", "e">>,
      <<"i", "s", "C", "o", "n", "t", "a", "i", "n", "e", "d", "B", "y", "T", "r", "a", "n", "s", "i", "t", "i", "v", "e">>,
      <<"i", "s", "C", "o", "n", "t", "e", "n", "t", "T", "y", "p", "e", "O", "f">>,
      <<"i", "s", "C", "o", "p", "y", "O", "f">>,
      <<"i", "s", "C", "r", "e", "a", "t", "i", "o", "n", "D", "a", "t", "e", "O", "f">>,
      <<"i", "s", "C", "r", "e", "a", "t", "o", "r", "O", "f">>,
      <<"i", "s", "D", "a", "t", "e", "A", "s", "s", "o", "c", "i", "a", "t", "e", "d", "W", "i", "t", "h">>,
      <<"i", "s", "D", "a", "t", "e", "O", "f", "O", "c", "c", "u", "r", "r", "e", "n", "c", "e", "O", "f">>,
      <<"i", "s", "D", "a", "t", "e", "T", "y", "p", "e", "O", "f">>,
      <<"i", "s", "D", "e", "a", "t", "h", "D", "a", "t", "e", "O", "f">>,
      <<"i", "s", "D", "e", "a", "t", "h", "P", "l", "a", "c", "e", "O", "f">>,
      <<"i", "s", "D", "e", "s", "t", "r", "u", "c", "t", "i", "o", "n", "D", "a", "t", "e", "O", "f">>,
      <<"i", "s", "D", "i", "r", "e", "c", "t", "C", "o", "m", "p", "o", "n", "e", "n", "t", "O", "f">>,
      <<"i", "s", "D", "i", "r", "e", "c", "t", "C", "o", "n", "s", "t", "i", "t", "u", "e", "n", "t", "O", "f">>,
      <<"i", "s", "D", "i", "r", "e", "c", "t", "P", "a", "r", "t", "O", "f">>,
      <<"i", "s", "D", "i", "r", "e", "c", "t", "S", "u", "b", "d", "i", "v", "i", "s", "i", "o", "n", "O", "f">>,
      <<"i", "s", "D", "i", "r", "e", "c", "t", "S", "u", "b", "e", "v", "e", "n", "t", "O", "f">>,
      <<"i", "s", "D", "i", "r", "e", "c", "t", "S", "u", "b", "o", "r", "d", "i", "n", "a", "t", "e", "T", "o">>,
      <<"i", "s", "D", "i", "r", "e", "c", "t", "l", "y", "C", "o", "n", "t", "a", "i", "n", "e", "d", "B", "y">>,
      <<"i", "s", "D", "i", "r", "e", "c", "t", "l", "y", "I", "n", "c", "l", "u", "d", "e", "d", "I", "n">>,
      <<"i", "s", "D", "o", "c", "u", "m", "e", "n", "t", "a", "r", "y", "F", "o", "r", "m", "T", "y", "p", "e", "O", "f">>,
      <<"i", "s", "D", "r", "a", "f", "t", "O", "f">>,
      <<"i", "s", "E", "n", "d", "D", "a", "t", "e", "O", "f">>,
      <<"i", "s", "E", "q", "u", "i", "v", "a", "l", "e", "n", "t", "T", "o">>,
      <<"i", "s", "E", "v", "e", "n", "t", "A", "s", "s", "o", "c", "i", "a", "t", "e", "d", "W", "i", "t", "h">>,
      <<"i", "s", "E", "v", "e", "n", "t", "T", "y", "p", "e", "O", "f">>,
      <<"i", "s", "E", "x", "t", "e", "n", "t", "O", "f">>,
      <<"i", "s", "E", "x", "t", "e", "n", "t", "T", "y", "p", "e", "O", "f">>,
      <<"i", "s", "F", "a", "m", "i", "l", "y", "T", "y", "p", "e", "O", "f">>,
      <<"i", "s", "F", "r", "o", "m", "U", "s", "e", "D", "a", "t", "e", "O", "f">>,
      <<"i", "s", "F", "u", "n", "c", "t", "i", "o", "n", "a", "l", "l", "y", "E", "q", "u", "i", "v", "a", "l", "e", "n", "t", "T", "o">>,
      <<"i", "s", "I", "d", "e", "n", "t", "i", "f", "i", "e", "r", "T", "y", "p", "e", "O", "f">>,
      <<"i", "s", "I", "n", "c", "l", "u", "d", "e", "d", "I", "n", "T", "r", "a", "n", "s", "i", "t", "i", "v", "e">>,
      <<"i", "s", "I", "n", "s", "t", "a", "n", "t", "i", "a", "t", "i", "o", "n", "A", "s", "s", "o", "c", "i", "a", "t", "e", "d", "W", "i", "t", "h", "I", "n", "s", "t", "a", "n", "t", "i", "a", "t", "i", "o", "n">>,
      <<"i", "s", "L", "a", "s", "t", "U", "p", "d", "a", "t", "e", "D", "a", "t", "e", "O", "f">>,
      <<"i", "s", "M", "o", "d", "i", "f", "i", "c", "a", "t", "i", "o", "n", "D", "a", "t", "e", "O", "f">>,
      <<"i", "s", "O", "r", "W", "a", "s", "A", "d", "j", "a", "c", "e", "n", "t", "T", "o">>,
      <<"i", "s", "O", "r", "W", "a", "s", "A", "f", "f", "e", "c", "t", "e", "d", "B", "y">>,
      <<"i", "s", "O", "r", "W", "a", "s", "A", "g", "e", "n", "t", "N", "a", "m", "e", "O", "f">>,
      <<"i", "s", "O", "r", "W", "a", "s", "A", "n", "a", "l", "o", "g", "u", "e", "I", "n", "s", "t", "a", "n", "t", "i", "a", "t", "i", "o", "n", "O", "f">>,
      <<"i", "s", "O", "r", "W", "a", "s", "A", "p", "p", "e", "l", "l", "a", "t", "i", "o", "n", "O", "f">>,
      <<"i", "s", "O", "r", "W", "a", "s", "C", "a", "t", "e", "g", "o", "r", "y", "O", "f">>,
      <<"i", "s", "O", "r", "W", "a", "s", "C", "a", "t", "e", "g", "o", "r", "y", "O", "f", "A", "l", "l", "M", "e", "m", "b", "e", "r", "s", "O", "f">>,
      <<"i", "s", "O", "r", "W", "a", "s", "C", "a", "t", "e", "g", "o", "r", "y", "O", "f", "S", "o", "m", "e", "M", "e", "m", "b", "e", "r", "s", "O", "f">>,
      <<"i", "s", "O", "r", "W", "a", "s", "C", "o", "m", "p", "o", "n", "e", "n", "t", "O", "f">>,
      <<"i", "s", "O", "r", "W", "a", "s", "C", "o", "n", "s", "t", "i", "t", "u", "e", "n", "t", "O", "f">>,
      <<"i", "s", "O", "r", "W", "a", "s", "C", "o", "n", "t", "a", "i", "n", "e", "d", "B", "y">>,
      <<"i", "s", "O", "r", "W", "a", "s", "C", "o", "n", "t", "e", "n", "t", "T", "y", "p", "e", "O", "f", "A", "l", "l", "M", "e", "m", "b", "e", "r", "s", "O", "f">>,
      <<"i", "s", "O", "r", "W", "a", "s", "C", "o", "n", "t", "e", "n", "t", "T", "y", "p", "e", "O", "f", "S", "o", "m", "e", "M", "e", "m", "b", "e", "r", "s", "O", "f">>,
      <<"i", "s", "O", "r", "W", "a", "s", "C", "o", "n", "t", "r", "o", "l", "l", "e", "r", "O", "f">>,
      <<"i", "s", "O", "r", "W", "a", "s", "C", "o", "o", "r", "d", "i", "n", "a", "t", "e", "s", "O", "f">>,
      <<"i", "s", "O", "r", "W", "a", "s", "C", "o", "r", "p", "o", "r", "a", "t", "e", "B", "o", "d", "y", "T", "y", "p", "e", "O", "f">>,
      <<"i", "s", "O", "r", "W", "a", "s", "C", "r", "e", "a", "t", "i", "o", "n", "D", "a", "t", "e", "O", "f", "A", "l", "l", "M", "e", "m", "b", "e", "r", "s", "O", "f">>,
      <<"i", "s", "O", "r", "W", "a", "s", "C", "r", "e", "a", "t", "i", "o", "n", "D", "a", "t", "e", "O", "f", "M", "o", "s", "t", "M", "e", "m", "b", "e", "r", "s", "O", "f">>,
      <<"i", "s", "O", "r", "W", "a", "s", "C", "r", "e", "a", "t", "i", "o", "n", "D", "a", "t", "e", "O", "f", "S", "o", "m", "e", "M", "e", "m", "b", "e", "r", "s", "O", "f">>,
      <<"i", "s", "O", "r", "W", "a", "s", "D", "e", "m", "o", "g", "r", "a", "p", "h", "i", "c", "G", "r", "o", "u", "p", "O", "f">>,
      <<"i", "s", "O", "r", "W", "a", "s", "D", "e", "r", "i", "v", "e", "d", "F", "r", "o", "m", "I", "n", "s", "t", "a", "n", "t", "i", "a", "t", "i", "o", "n">>,
      <<"i", "s", "O", "r", "W", "a", "s", "D", "e", "s", "c", "r", "i", "b", "e", "d", "B", "y">>,
      <<"i", "s", "O", "r", "W", "a", "s", "D", "i", "g", "i", "t", "a", "l", "I", "n", "s", "t", "a", "n", "t", "i", "a", "t", "i", "o", "n", "O", "f">>,
      <<"i", "s", "O", "r", "W", "a", "s", "D", "o", "c", "u", "m", "e", "n", "t", "a", "r", "y", "F", "o", "r", "m", "T", "y", "p", "e", "O", "f", "A", "l", "l", "M", "e", "m", "b", "e", "r", "s", "O", "f">>,
      <<"i", "s", "O", "r", "W", "a", "s", "D", "o", "c", "u", "m", "e", "n", "t", "a", "r", "y", "F", "o", "r", "m", "T", "y", "p", "e", "O", "f", "S", "o", "m", "e", "M", "e", "m", "b", "e", "r", "s", "O", "f">>,
      <<"i", "s", "O", "r", "W", "a", "s", "E", "m", "p", "l", "o", "y", "e", "r", "O", "f">>,
      <<"i", "s", "O", "r", "W", "a", "s", "E", "n", "f", "o", "r", "c", "e", "d", "B", "y">>,
      <<"i", "s", "O", "r", "W", "a", "s", "E", "x", "p", "r", "e", "s", "s", "e", "d", "B", "y">>,
      <<"i", "s", "O", "r", "W", "a", "s", "H", "o", "l", "d", "e", "r", "O", "f">>,
      <<"i", "s", "O", "r", "W", "a", "s", "H", "o", "l", "d", "e", "r", "O", "f", "I", "n", "t", "e", "l", "l", "e", "c", "t", "u", "a", "l", "P", "r", "o", "p", "e", "r", "t", "y", "R", "i", "g", "h", "t", "s", "O", "f">>,
      <<"i", "s", "O", "r", "W", "a", "s", "I", "d", "e", "n", "t", "i", "f", "i", "e", "r", "O", "f">>,
      <<"i", "s", "O", "r", "W", "a", "s", "I", "n", "c", "l", "u", "d", "e", "d", "I", "n">>,
      <<"i", "s", "O", "r", "W", "a", "s", "I", "n", "s", "t", "a", "n", "t", "i", "a", "t", "i", "o", "n", "O", "f">>,
      <<"i", "s", "O", "r", "W", "a", "s", "J", "u", "r", "i", "s", "d", "i", "c", "t", "i", "o", "n", "O", "f">>,
      <<"i", "s", "O", "r", "W", "a", "s", "L", "a", "n", "g", "u", "a", "g", "e", "O", "f">>,
      <<"i", "s", "O", "r", "W", "a", "s", "L", "a", "n", "g", "u", "a", "g", "e", "O", "f", "A", "l", "l", "M", "e", "m", "b", "e", "r", "s", "O", "f">>,
      <<"i", "s", "O", "r", "W", "a", "s", "L", "a", "n", "g", "u", "a", "g", "e", "O", "f", "S", "o", "m", "e", "M", "e", "m", "b", "e", "r", "s", "O", "f">>,
      <<"i", "s", "O", "r", "W", "a", "s", "L", "e", "a", "d", "e", "r", "O", "f">>,
      <<"i", "s", "O", "r", "W", "a", "s", "L", "e", "g", "a", "l", "S", "t", "a", "t", "u", "s", "O", "f">>,
      <<"i", "s", "O", "r", "W", "a", "s", "L", "e", "g", "a", "l", "S", "t", "a", "t", "u", "s", "O", "f", "A", "l", "l", "M", "e", "m", "b", "e", "r", "s", "O", "f">>,
      <<"i", "s", "O", "r", "W", "a", "s", "L", "e", "g", "a", "l", "S", "t", "a", "t", "u", "s", "O", "f", "S", "o", "m", "e", "M", "e", "m", "b", "e", "r", "s", "O", "f">>,
      <<"i", "s", "O", "r", "W", "a", "s", "L", "o", "c", "a", "t", "i", "o", "n", "O", "f">>,
      <<"i", "s", "O", "r", "W", "a", "s", "L", "o", "c", "a", "t", "i", "o", "n", "O", "f", "A", "g", "e", "n", "t">>,
      <<"i", "s", "O", "r", "W", "a", "s", "M", "a", "i", "n", "S", "u", "b", "j", "e", "c", "t", "O", "f">>,
      <<"i", "s", "O", "r", "W", "a", "s", "M", "a", "n", "a", "g", "e", "r", "O", "f">>,
      <<"i", "s", "O", "r", "W", "a", "s", "M", "a", "n", "d", "a", "t", "e", "T", "y", "p", "e", "O", "f">>,
      <<"i", "s", "O", "r", "W", "a", "s", "M", "e", "m", "b", "e", "r", "O", "f">>,
      <<"i", "s", "O", "r", "W", "a", "s", "N", "a", "m", "e", "O", "f">>,
      <<"i", "s", "O", "r", "W", "a", "s", "O", "c", "c", "u", "p", "a", "t", "i", "o", "n", "T", "y", "p", "e", "O", "f">>,
      <<"i", "s", "O", "r", "W", "a", "s", "O", "c", "c", "u", "p", "i", "e", "d", "B", "y">>,
      <<"i", "s", "O", "r", "W", "a", "s", "O", "w", "n", "e", "r", "O", "f">>,
      <<"i", "s", "O", "r", "W", "a", "s", "P", "a", "r", "t", "O", "f">>,
      <<"i", "s", "O", "r", "W", "a", "s", "P", "a", "r", "t", "i", "c", "i", "p", "a", "n", "t", "I", "n">>,
      <<"i", "s", "O", "r", "W", "a", "s", "P", "e", "r", "f", "o", "r", "m", "e", "d", "B", "y">>,
      <<"i", "s", "O", "r", "W", "a", "s", "P", "h", "y", "s", "i", "c", "a", "l", "L", "o", "c", "a", "t", "i", "o", "n", "O", "f">>,
      <<"i", "s", "O", "r", "W", "a", "s", "P", "l", "a", "c", "e", "N", "a", "m", "e", "O", "f">>,
      <<"i", "s", "O", "r", "W", "a", "s", "P", "l", "a", "c", "e", "T", "y", "p", "e", "O", "f">>,
      <<"i", "s", "O", "r", "W", "a", "s", "R", "e", "c", "o", "r", "d", "S", "t", "a", "t", "e", "O", "f", "A", "l", "l", "M", "e", "m", "b", "e", "r", "s", "O", "f">>,
      <<"i", "s", "O", "r", "W", "a", "s", "R", "e", "c", "o", "r", "d", "S", "t", "a", "t", "e", "O", "f", "S", "o", "m", "e", "M", "e", "m", "b", "e", "r", "s", "O", "f">>,
      <<"i", "s", "O", "r", "W", "a", "s", "R", "e", "g", "u", "l", "a", "t", "e", "d", "B", "y">>,
      <<"i", "s", "O", "r", "W", "a", "s", "R", "e", "s", "p", "o", "n", "s", "i", "b", "l", "e", "F", "o", "r", "E", "n", "f", "o", "r", "c", "i", "n", "g">>,
      <<"i", "s", "O", "r", "W", "a", "s", "R", "u", "l", "e", "T", "y", "p", "e", "O", "f">>,
      <<"i", "s", "O", "r", "W", "a", "s", "S", "u", "b", "d", "i", "v", "i", "s", "i", "o", "n", "O", "f">>,
      <<"i", "s", "O", "r", "W", "a", "s", "S", "u", "b", "e", "v", "e", "n", "t", "O", "f">>,
      <<"i", "s", "O", "r", "W", "a", "s", "S", "u", "b", "j", "e", "c", "t", "O", "f">>,
      <<"i", "s", "O", "r", "W", "a", "s", "S", "u", "b", "o", "r", "d", "i", "n", "a", "t", "e", "T", "o">>,
      <<"i", "s", "O", "r", "W", "a", "s", "T", "i", "t", "l", "e", "O", "f">>,
      <<"i", "s", "O", "r", "W", "a", "s", "U", "n", "d", "e", "r", "A", "u", "t", "h", "o", "r", "i", "t", "y", "O", "f">>,
      <<"i", "s", "O", "r", "g", "a", "n", "i", "c", "O", "r", "F", "u", "n", "c", "t", "i", "o", "n", "a", "l", "P", "r", "o", "v", "e", "n", "a", "n", "c", "e", "O", "f">>,
      <<"i", "s", "O", "r", "g", "a", "n", "i", "c", "P", "r", "o", "v", "e", "n", "a", "n", "c", "e", "O", "f">>,
      <<"i", "s", "O", "r", "i", "g", "i", "n", "a", "l", "O", "f">>,
      <<"i", "s", "P", "a", "r", "t", "O", "f", "T", "r", "a", "n", "s", "i", "t", "i", "v", "e">>,
      <<"i", "s", "P", "l", "a", "c", "e", "A", "s", "s", "o", "c", "i", "a", "t", "e", "d", "W", "i", "t", "h">>,
      <<"i", "s", "P", "l", "a", "c", "e", "A", "s", "s", "o", "c", "i", "a", "t", "e", "d", "W", "i", "t", "h", "A", "g", "e", "n", "t">>,
      <<"i", "s", "P", "r", "o", "d", "u", "c", "t", "i", "o", "n", "T", "e", "c", "h", "n", "i", "q", "u", "e", "T", "y", "p", "e", "O", "f">>,
      <<"i", "s", "P", "u", "b", "l", "i", "c", "a", "t", "i", "o", "n", "D", "a", "t", "e", "O", "f">>,
      <<"i", "s", "P", "u", "b", "l", "i", "s", "h", "e", "r", "O", "f">>,
      <<"i", "s", "R", "e", "c", "e", "i", "v", "e", "r", "O", "f">>,
      <<"i", "s", "R", "e", "c", "o", "r", "d", "R", "e", "s", "o", "u", "r", "c", "e", "A", "s", "s", "o", "c", "i", "a", "t", "e", "d", "W", "i", "t", "h", "R", "e", "c", "o", "r", "d", "R", "e", "s", "o", "u", "r", "c", "e">>,
      <<"i", "s", "R", "e", "c", "o", "r", "d", "S", "e", "t", "T", "y", "p", "e", "O", "f">>,
      <<"i", "s", "R", "e", "c", "o", "r", "d", "S", "t", "a", "t", "e", "O", "f">>,
      <<"i", "s", "R", "e", "l", "a", "t", "e", "d", "T", "o">>,
      <<"i", "s", "R", "e", "p", "l", "y", "T", "o">>,
      <<"i", "s", "R", "e", "p", "r", "e", "s", "e", "n", "t", "a", "t", "i", "o", "n", "T", "y", "p", "e", "O", "f">>,
      <<"i", "s", "R", "e", "s", "p", "o", "n", "s", "i", "b", "l", "e", "F", "o", "r", "I", "s", "s", "u", "i", "n", "g">>,
      <<"i", "s", "R", "u", "l", "e", "A", "s", "s", "o", "c", "i", "a", "t", "e", "d", "W", "i", "t", "h">>,
      <<"i", "s", "S", "e", "n", "d", "e", "r", "O", "f">>,
      <<"i", "s", "S", "u", "b", "d", "i", "v", "i", "s", "i", "o", "n", "O", "f", "T", "r", "a", "n", "s", "i", "t", "i", "v", "e">>,
      <<"i", "s", "S", "u", "b", "e", "v", "e", "n", "t", "O", "f", "T", "r", "a", "n", "s", "i", "t", "i", "v", "e">>,
      <<"i", "s", "S", "u", "b", "o", "r", "d", "i", "n", "a", "t", "e", "T", "o", "T", "r", "a", "n", "s", "i", "t", "i", "v", "e">>,
      <<"i", "s", "S", "u", "c", "c", "e", "s", "s", "o", "r", "O", "f">>,
      <<"i", "s", "T", "o", "U", "s", "e", "D", "a", "t", "e", "O", "f">>,
      <<"i", "s", "U", "n", "i", "t", "O", "f", "M", "e", "a", "s", "u", "r", "e", "m", "e", "n", "t", "O", "f">>,
      <<"i", "s", "W", "i", "t", "h", "i", "n">>,
      <<"i", "s", "s", "u", "e", "d", "B", "y">>,
      <<"k", "n", "o", "w", "n", "B", "y">>,
      <<"k", "n", "o", "w", "s">>,
      <<"k", "n", "o", "w", "s", "O", "f">>,
      <<"m", "i", "g", "r", "a", "t", "e", "d", "F", "r", "o", "m">>,
      <<"m", "i", "g", "r", "a", "t", "e", "d", "I", "n", "t", "o">>,
      <<"o", "c", "c", "u", "p", "i", "e", "s", "O", "r", "O", "c", "c", "u", "p", "i", "e", "d">>,
      <<"o", "c", "c", "u", "r", "r", "e", "d", "A", "t", "D", "a", "t", "e">>,
      <<"o", "v", "e", "r", "l", "a", "p", "s", "O", "r", "O", "v", "e", "r", "l", "a", "p", "p", "e", "d">>,
      <<"p", "e", "r", "f", "o", "r", "m", "s", "O", "r", "P", "e", "r", "f", "o", "r", "m", "e", "d">>,
      <<"p", "r", "e", "c", "e", "d", "e", "d", "I", "n", "S", "e", "q", "u", "e", "n", "c", "e">>,
      <<"p", "r", "e", "c", "e", "d", "e", "s", "I", "n", "S", "e", "q", "u", "e", "n", "c", "e", "T", "r", "a", "n", "s", "i", "t", "i", "v", "e">>,
      <<"p", "r", "e", "c", "e", "d", "e", "s", "I", "n", "T", "i", "m", "e">>,
      <<"p", "r", "e", "c", "e", "d", "e", "s", "O", "r", "P", "r", "e", "c", "e", "d", "e", "d">>,
      <<"p", "r", "o", "x", "y", "F", "o", "r">>,
      <<"p", "r", "o", "x", "y", "I", "n">>,
      <<"r", "e", "g", "u", "l", "a", "t", "e", "s", "O", "r", "R", "e", "g", "u", "l", "a", "t", "e", "d">>,
      <<"r", "e", "l", "a", "t", "i", "o", "n", "H", "a", "s", "T", "a", "r", "g", "e", "t">>,
      <<"r", "e", "s", "u", "l", "t", "e", "d", "F", "r", "o", "m", "T", "h", "e", "M", "e", "r", "g", "e", "r", "O", "f">>,
      <<"r", "e", "s", "u", "l", "t", "e", "d", "F", "r", "o", "m", "T", "h", "e", "S", "p", "l", "i", "t", "O", "f">>,
      <<"r", "e", "s", "u", "l", "t", "s", "O", "r", "R", "e", "s", "u", "l", "t", "e", "d", "F", "r", "o", "m">>,
      <<"r", "e", "s", "u", "l", "t", "s", "O", "r", "R", "e", "s", "u", "l", "t", "e", "d", "I", "n">>,
      <<"t", "h", "i", "n", "g", "I", "s", "S", "o", "u", "r", "c", "e", "O", "f", "R", "e", "l", "a", "t", "i", "o", "n">>,
      <<"w", "a", "s", "C", "o", "m", "p", "o", "n", "e", "n", "t", "O", "f">>,
      <<"w", "a", "s", "C", "o", "n", "s", "t", "i", "t", "u", "e", "n", "t", "O", "f">>,
      <<"w", "a", "s", "C", "o", "n", "t", "a", "i", "n", "e", "d", "B", "y">>,
      <<"w", "a", "s", "I", "n", "c", "l", "u", "d", "e", "d", "I", "n">>,
      <<"w", "a", "s", "L", "a", "s", "t", "U", "p", "d", "a", "t", "e", "d", "A", "t", "D", "a", "t", "e">>,
      <<"w", "a", "s", "M", "e", "r", "g", "e", "d", "I", "n", "t", "o">>,
      <<"w", "a", "s", "P", "a", "r", "t", "O", "f">>,
      <<"w", "a", "s", "S", "p", "l", "i", "t", "I", "n", "t", "o">>,
      <<"w", "a", "s", "S", "u", "b", "d", "i", "v", "i", "s", "i", "o", "n", "O", "f">>,
      <<"w", "a", "s", "S", "u", "b", "e", "v", "e", "n", "t", "O", "f">>,
      <<"w", "a", "s", "S", "u", "b", "o", "r", "d", "i", "n", "a", "t", "e", "T", "o">>,
      <<"w", "a", "s", "U", "s", "e", "d", "F", "r", "o", "m", "D", "a", "t", "e">>,
      <<"w", "a", "s", "U", "s", "e", "d", "T", "o", "D", "a", "t", "e">> }

\* _ric_datatype_properties
RicDatatypeProperties ==
    { <<"a", "c", "c", "r", "u", "a", "l", "s">>,
      <<"a", "c", "c", "r", "u", "a", "l", "s", "S", "t", "a", "t", "u", "s">>,
      <<"a", "l", "t", "i", "m", "e", "t", "r", "i", "c", "S", "y", "s", "t", "e", "m">>,
      <<"a", "l", "t", "i", "t", "u", "d", "e">>,
      <<"a", "u", "t", "h", "e", "n", "t", "i", "c", "i", "t", "y", "N", "o", "t", "e">>,
      <<"a", "u", "t", "h", "o", "r", "i", "z", "i", "n", "g", "M", "a", "n", "d", "a", "t", "e">>,
      <<"b", "e", "g", "i", "n", "n", "i", "n", "g", "D", "a", "t", "e">>,
      <<"b", "i", "r", "t", "h", "D", "a", "t", "e">>,
      <<"c", "a", "r", "r", "i", "e", "r", "E", "x", "t", "e", "n", "t">>,
      <<"c", "l", "a", "s", "s", "i", "f", "i", "c", "a", "t", "i", "o", "n">>,
      <<"c", "o", "n", "d", "i", "t", "i", "o", "n", "s", "O", "f", "A", "c", "c", "e", "s", "s">>,
      <<"c", "o", "n", "d", "i", "t", "i", "o", "n", "s", "O", "f", "U", "s", "e">>,
      <<"c", "r", "e", "a", "t", "i", "o", "n", "D", "a", "t", "e">>,
      <<"d", "a", "t", "e">>,
      <<"d", "a", "t", "e", "Q", "u", "a", "l", "i", "f", "i", "e", "r">>,
      <<"d", "e", "a", "t", "h", "D", "a", "t", "e">>,
      <<"d", "e", "s", "t", "r", "u", "c", "t", "i", "o", "n", "D", "a", "t", "e">>,
      <<"e", "n", "d", "D", "a", "t", "e">>,
      <<"e", "x", "p", "r", "e", "s", "s", "e", "d", "D", "a", "t", "e">>,
      <<"g", "e", "n", "e", "r", "a", "l", "D", "e", "s", "c", "r", "i", "p", "t", "i", "o", "n">>,
      <<"g", "e", "o", "d", "e", "s", "i", "c", "S", "y", "s", "t", "e", "m">>,
      <<"g", "e", "o", "g", "r", "a", "p", "h", "i", "c", "a", "l", "C", "o", "o", "r", "d", "i", "n", "a", "t", "e", "s">>,
      <<"h", "e", "i", "g", "h", "t">>,
      <<"h", "i", "s", "t", "o", "r", "y">>,
      <<"i", "d", "e", "n", "t", "i", "f", "i", "e", "r">>,
      <<"i", "n", "s", "t", "a", "n", "t", "i", "a", "t", "i", "o", "n", "E", "x", "t", "e", "n", "t">>,
      <<"i", "n", "s", "t", "a", "n", "t", "i", "a", "t", "i", "o", "n", "S", "t", "r", "u", "c", "t", "u", "r", "e">>,
      <<"i", "n", "t", "e", "g", "r", "i", "t", "y", "N", "o", "t", "e">>,
      <<"l", "a", "s", "t", "M", "o", "d", "i", "f", "i", "c", "a", "t", "i", "o", "n", "D", "a", "t", "e">>,
      <<"l", "a", "t", "i", "t", "u", "d", "e">>,
      <<"l", "e", "n", "g", "t", "h">>,
      <<"l", "o", "c", "a", "t", "i", "o", "n">>,
      <<"l", "o", "n", "g", "i", "t", "u", "d", "e">>,
      <<"m", "e", "a", "s", "u", "r", "e">>,
      <<"m", "o", "d", "i", "f", "i", "c", "a", "t", "i", "o", "n", "D", "a", "t", "e">>,
      <<"n", "a", "m", "e">>,
      <<"n", "o", "r", "m", "a", "l", "i", "z", "e", "d", "D", "a", "t", "e", "V", "a", "l", "u", "e">>,
      <<"n", "o", "r", "m", "a", "l", "i", "z", "e", "d", "V", "a", "l", "u", "e">>,
      <<"p", "h", "y", "s", "i", "c", "a", "l", "C", "h", "a", "r", "a", "c", "t", "e", "r", "i", "s", "t", "i", "c", "s", "N", "o", "t", "e">>,
      <<"p", "h", "y", "s", "i", "c", "a", "l", "O", "r", "L", "o", "g", "i", "c", "a", "l", "E", "x", "t", "e", "n", "t">>,
      <<"p", "r", "o", "d", "u", "c", "t", "i", "o", "n", "T", "e", "c", "h", "n", "i", "q", "u", "e">>,
      <<"p", "u", "b", "l", "i", "c", "a", "t", "i", "o", "n", "D", "a", "t", "e">>,
      <<"q", "u", "a", "l", "i", "t", "y", "O", "f", "R", "e", "p", "r", "e", "s", "e", "n", "t", "a", "t", "i", "o", "n", "N", "o", "t", "e">>,
      <<"q", "u", "a", "n", "t", "i", "t", "y">>,
      <<"r", "e", "c", "o", "r", "d", "R", "e", "s", "o", "u", "r", "c", "e", "E", "x", "t", "e", "n", "t">>,
      <<"r", "e", "c", "o", "r", "d", "R", "e", "s", "o", "u", "r", "c", "e", "S", "t", "r", "u", "c", "t", "u", "r", "e">>,
      <<"r", "e", "f", "e", "r", "e", "n", "c", "e", "S", "y", "s", "t", "e", "m">>,
      <<"r", "e", "l", "a", "t", "i", "o", "n", "C", "e", "r", "t", "a", "i", "n", "t", "y">>,
      <<"r", "e", "l", "a", "t", "i", "o", "n", "S", "o", "u", "r", "c", "e">>,
      <<"r", "e", "l", "a", "t", "i", "o", "n", "S", "t", "a", "t", "e">>,
      <<"r", "u", "l", "e", "F", "o", "l", "l", "o", "w", "e", "d">>,
      <<"s", "c", "o", "p", "e", "A", "n", "d", "C", "o", "n", "t", "e", "n", "t">>,
      <<"s", "t", "r", "u", "c", "t", "u", "r", "e">>,
      <<"t", "e", "c", "h", "n", "i", "c", "a", "l", "C", "h", "a", "r", "a", "c", "t", "e", "r", "i", "s", "t", "i", "c", "s">>,
      <<"t", "e", "x", "t", "u", "a", "l", "V", "a", "l", "u", "e">>,
      <<"t", "i", "t", "l", "e">>,
      <<"t", "y", "p", "e">>,
      <<"u", "n", "i", "t", "O", "f", "M", "e", "a", "s", "u", "r", "e", "m", "e", "n", "t">>,
      <<"u", "s", "e", "d", "F", "r", "o", "m", "D", "a", "t", "e">>,
      <<"u", "s", "e", "d", "T", "o", "D", "a", "t", "e">>,
      <<"w", "i", "d", "t", "h">> }

---------------------------------------------------------------------------
(* DrawIOXMLTree: the diagram and what its constructor extracts          *)
(*                                                                       *)
(* The diagram is the list of the children of the graph model's root     *)
(* element (draw_io_xml_tree[0][0][0]), in document order, or None if    *)
(* that element is absent.  A cell is a record of its tag, its           *)
(* attributes (id; parent, value, style, source, target: optional) and   *)
(* its optional mxGeometry element, which has optional x, y, width and   *)
(* height and a list of sub-elements (tag; as, x, y: optional).          *)
(* A cell is referred to by its index in the list.                       *)
(***************************************************************************)

RICO == <<"r", "i", "c", "o", ":">>
ROOT_ID == <<"1">>
EDGE_LABEL == <<"e", "d", "g", "e", "L", "a", "b", "e", "l">>
ROUNDED == <<"r", "o", "u", "n", "d", "e", "d", "=", "1">>
MX_CELL == <<"m", "x", "C", "e", "l", "l">>
MX_POINT == <<"m", "x", "P", "o", "i", "n", "t">>
SOURCE_POINT == <<"s", "o", "u", "r", "c", "e", "P", "o", "i", "n", "t">>
TARGET_POINT == <<"t", "a", "r", "g", "e", "t", "P", "o", "i", "n", "t">>

\* sub in s
Contains(s, sub) == \E i \in 1..(Len(s) - Len(sub) + 1) : SubSeq(s, i, i + Len(sub) - 1) = sub

\* s.split(sep) for a separator that is not empty
RECURSIVE SplitOnFrom(_, _, _, _)
SplitOnFrom(s, sep, cur, out) ==
    IF s = <<>> THEN Append(out, cur)
    ELSE IF StartsWith(s, sep)
         THEN SplitOnFrom(SubSeq(s, Len(sep) + 1, Len(s)), sep, <<>>, Append(out, cur))
         ELSE SplitOnFrom(Tail(s), sep, Append(cur, Head(s)), out)

SplitOn(s, sep) == SplitOnFrom(s, sep, <<>>, <<>>)

\* _cell_with_id and _child_of write the id between apostrophes into the
\* predicate of an XPath (lines 824 and 850).  An apostrophe in the id ends
\* the quoted text, what follows it is read as XPath, and ElementPath
\* refuses the predicate with the SyntaxError "invalid predicate", whatever
\* the cells are.  The ids of the model have no "]" and no ":" after an
\* apostrophe: with "]" the rest of the id would be read as a path of its
\* own, with ":" the message of the SyntaxError would name a prefix.
InvalidPredicate(id) == HasChar(id, "'")

\* DrawIOXMLTree._cell_with_id: the first cell with the id
CellWithId(cells, id) ==
    LET found == {i \in 1..Len(cells) : cells[i].id = id}
    IN  IF InvalidPredicate(id) THEN Raise("SyntaxError", <<>>)
        ELSE IF found = {} THEN Raise("ValueError", <<id>>)
        ELSE Ok(Min(found))

\* What the parser of a tree keeps from one call of _value_of to the next:
\* the buffer and the mode of HTMLParser, which clear() leaves alone.
Kept(ps) == [rawdata |-> ps.rawdata, cdata_elem |-> ps.cdata_elem]

\* what the parser of a new tree holds (line 816)
NewParser == Kept(ClearedParser)

\* What a call that feeds the parser of the tree gives: its outcome, and
\* what the parser keeps after it.
Fed(outcome, parser) == [out |-> outcome, parser |-> parser]

\* DrawIOXMLTree._value_of: the parser is cleared, fed the stripped value and
\* asked for its content.  clear() leaves the buffer and the mode of the
\* parser as the call before left them: the value is added to that buffer
\* and read in that mode.
ValueOf(parser, cell) ==
    IF IsNone(cell.value) THEN Fed(Raise("_NoValueException", <<>>), parser)
    ELSE The({Fed(Ok(Content(ps.chunks, ps.raw_data)), Kept(ps)) :
                  ps \in {Feed([ClearedParser EXCEPT !.rawdata = parser.rawdata,
                                                     !.cdata_elem = parser.cdata_elem],
                               Strip(Get(cell.value)))}})

\* what _value_of gives for a cell on a new parser
LabelOf(cell) == ValueOf(NewParser, cell).out

\* DrawIOXMLTree._parent_of
ParentOf(cells, cell) ==
    IF IsNone(cell.parent) THEN Raise("ParseException", <<cell.id>>)
    ELSE CellWithId(cells, Get(cell.parent))

\* DrawIOXMLTree._child_of: the cells whose parent attribute is the id, in
\* document order; findall raises before the first of them is given
ChildOf(cells, parent_id) ==
    IF InvalidPredicate(parent_id) THEN Raise("SyntaxError", <<>>)
    ELSE Ok(SelectSeq([i \in 1..Len(cells) |-> i],
                      LAMBDA i : cells[i].parent = Some(parent_id)))

\* DrawIOXMLTree._geometry
Geometry(cell) ==
    IF IsNone(cell.geometry) THEN Raise("ParseException", <<cell.id>>)
    ELSE Ok(Get(cell.geometry))

\* DrawIOXMLTree._x_and_y_in_geometry
XAndYInGeometry(geometry, cell_id) ==
    IF IsNone(geometry.x) \/ IsNone(geometry.y) THEN Raise("ParseException", <<cell_id>>)
    ELSE Ok(<<Get(geometry.x), Get(geometry.y)>>)

\* An end counts as locked when either end of the edge is.
IsLockedAtEitherEnd(cell, as_attribute) ==
    /\ as_attribute \in {SOURCE_POINT, TARGET_POINT}
    /\ (IsSome(cell.source) \/ IsSome(cell.target))

\* DrawIOXMLTree._is_locked
IsLocked(cell, as_attribute) ==
    \/ as_attribute = SOURCE_POINT /\ IsSome(cell.source)
    \/ as_attribute = TARGET_POINT /\ IsSome(cell.target)

\* DrawIOXMLTree._start_or_end called with as_attribute None: the x and y of
\* the cell's own geometry, whatever the cell's parent is
OwnPosition(cell) ==
    LET g == Geometry(cell)
    IN  IF g.ok THEN XAndYInGeometry(g.val, cell.id) ELSE g

\* The position of a group the coordinates of a point in it are relative
\* to: _start_or_end(self._parent_of(cell), None)
ParentCoordinates(cells, parent) == OwnPosition(parent)

\* DrawIOXMLTree._start_or_end for the point found (lines 926 to 954)
PointCoordinates(cells, cell, as_attribute, element) ==
    IF IsNone(element.x) \/ IsNone(element.y)
    THEN IF IsLocked(cell, as_attribute) THEN Ok(None)
         ELSE Raise("ParseException", <<cell.id>>)
    ELSE IF IsNone(cell.parent) THEN Raise("KeyError", <<<<"p", "a", "r", "e", "n", "t">>>>)
    ELSE IF Get(cell.parent) = ROOT_ID
         THEN Ok(Some(<<Get(element.x), Get(element.y)>>))
    ELSE LET p == ParentOf(cells, cell)
         IN  IF ~p.ok THEN p
             ELSE LET parent_coordinates == ParentCoordinates(cells, cells[p.val])
                  IN  IF ~parent_coordinates.ok THEN parent_coordinates
                      ELSE Ok(Some(<<Get(element.x) + parent_coordinates.val[1],
                                     Get(element.y) + parent_coordinates.val[2]>>))

\* the loop of _start_or_end over the sub-elements of the geometry
RECURSIVE StartOrEndFrom(_, _, _, _, _)
StartOrEndFrom(cells, cell, as_attribute, elements, i) ==
    IF i > Len(elements) THEN Raise("ParseException", <<cell.id>>)
    ELSE IF elements[i].tag # MX_POINT
         THEN StartOrEndFrom(cells, cell, as_attribute, elements, i + 1)
    ELSE IF IsNone(elements[i].as) THEN Raise("ParseException", <<cell.id>>)
    ELSE IF Get(elements[i].as) # as_attribute
         THEN StartOrEndFrom(cells, cell, as_attribute, elements, i + 1)
    ELSE PointCoordinates(cells, cell, as_attribute, elements[i])

\* DrawIOXMLTree._start_or_end for an as_attribute: None (the end is locked
\* and has no coordinates) or the coordinates of the point
StartOrEnd(cells, cell, as_attribute) ==
    LET g == Geometry(cell)
    IN  IF ~g.ok THEN g
        ELSE IF g.val.elements = <<>> THEN Raise("ParseException", <<cell.id>>)
        ELSE StartOrEndFrom(cells, cell, as_attribute, g.val.elements, 1)

\* The loop of _start_or_end up to the sub-element it stops at: the place of
\* the first mxPoint that has the as attribute or none at all, or 0 if the
\* loop comes to its end
RECURSIVE PointAt(_, _, _)
PointAt(elements, as_attribute, i) ==
    IF i > Len(elements) THEN 0
    ELSE IF /\ elements[i].tag = MX_POINT
            /\ (IsNone(elements[i].as) \/ Get(elements[i].as) = as_attribute)
         THEN i
    ELSE PointAt(elements, as_attribute, i + 1)

\* _start_or_end, called with an as attribute, comes to its call of itself
\* (lines 949 and 950): the point is found with both its coordinates, and
\* the parent of the cell is not the root and is a cell of the diagram
MakesCall(cells, cell, as_attribute) ==
    /\ Geometry(cell).ok
    /\ LET elements == Geometry(cell).val.elements
           k == PointAt(elements, as_attribute, 1)
       IN  /\ k # 0
           /\ IsSome(elements[k].as)
           /\ IsSome(elements[k].x)
           /\ IsSome(elements[k].y)
    /\ IsSome(cell.parent)
    /\ Get(cell.parent) # ROOT_ID
    /\ ParentOf(cells, cell).ok

\* A call of _start_or_end that has not returned: the place of its cell in
\* the diagram, its as_attribute, and what its call of itself gave, if that
\* has returned
Frame(cell, as_attribute) ==
    [cell |-> cell, as_attribute |-> as_attribute, parent_coordinates |-> None]

\* The call that passes the as attribute on to the parent.
CalleeWithAttribute(cells, frame) ==
    Frame(ParentOf(cells, cells[frame.cell]).val, frame.as_attribute)

\* the call _start_or_end makes of itself: on the parent, with None
Callee(cells, frame) ==
    Frame(ParentOf(cells, cells[frame.cell]).val, None)

\* what _start_or_end gives for the point, once its call of itself has
\* returned or raised (lines 951 to 954)
Combined(element, got) ==
    IF ~got.ok THEN got
    ELSE IF IsNone(got.val) THEN Raise("ValueError", <<>>)
    ELSE Ok(Some(<<Get(element.x) + Get(got.val)[1], Get(element.y) + Get(got.val)[2]>>))

\* what a call of _start_or_end returns or raises, when it has no call of
\* itself to make or to wait for
Returns(cells, frame) ==
    LET cell == cells[frame.cell]
    IN  IF frame.as_attribute = None
        THEN LET own == OwnPosition(cell)
             IN  IF own.ok THEN Ok(Some(own.val)) ELSE own
        ELSE IF frame.parent_coordinates = None
        THEN StartOrEnd(cells, cell, Get(frame.as_attribute))
        ELSE LET elements == Geometry(cell).val.elements
             IN  Combined(elements[PointAt(elements, Get(frame.as_attribute), 1)],
                          Get(frame.parent_coordinates))

\* DrawIOXMLTree._arrow_start and _arrow_end
ArrowStart(cells, cell) == StartOrEnd(cells, cell, SOURCE_POINT)
ArrowEnd(cells, cell) == StartOrEnd(cells, cell, TARGET_POINT)

\* DrawIOXMLTree._dimensions; the messages for a missing width or height
\* read an attribute the cell does not have
Dimensions(cell) ==
    LET g == Geometry(cell)
    IN  IF ~g.ok THEN g
        ELSE IF IsNone(g.val.x) \/ IsNone(g.val.y)
             THEN Raise("ParseException", <<cell.id>>)
        ELSE IF IsNone(g.val.width) THEN Raise("KeyError", <<<<"w", "i", "d", "t", "h">>>>)
        ELSE IF IsNone(g.val.height) THEN Raise("KeyError", <<<<"h", "e", "i", "g", "h", "t">>>>)
        ELSE Ok(<<Get(g.val.x), Get(g.val.y), Get(g.val.width), Get(g.val.height)>>)

\* DrawIOXMLTree._is_possible_literal
IsPossibleLiteral(cell) ==
    /\ IsSome(cell.parent)
    /\ Get(cell.parent) = ROOT_ID
    /\ IsSome(cell.style)
    /\ Contains(Get(cell.style), ROUNDED)

\* DrawIOXMLTree._arrow_label: the value of the first child that carries
\* the edge's label
ArrowLabel(cells, parser, cell) ==
    LET children == ChildOf(cells, cell.id)
        carriers == SelectSeq(children.val,
                        LAMBDA i : /\ IsSome(cells[i].style)
                                   /\ Contains(Get(cells[i].style), EDGE_LABEL))
    IN  IF ~children.ok THEN Fed(children, parser)
        ELSE IF carriers = <<>> THEN Fed(Raise("_NoValueException", <<>>), parser)
        ELSE ValueOf(parser, cells[carriers[1]])

\* the arrow data of a cell with the label: (cell, start, end, label)
ArrowData(cells, i, label) ==
    The({ IF ~start.ok THEN start
          ELSE IF ~end.ok THEN end
          ELSE Ok([cell |-> i, start |-> start.val, end |-> end.val, label |-> label]) :
          start \in {ArrowStart(cells, cells[i])}, end \in {ArrowEnd(cells, cells[i])} })

\* what the constructor has extracted: the three lists, and what its calls
\* of _value_of have left in the buffer of the parser
NoCells ==
    [individual_cells |-> <<>>, arrow_cells |-> <<>>, literal_cells |-> <<>>,
     parser |-> NewParser]

\* DrawIOXMLTree._add_arrow_if_find_label
AddArrowIfFindLabel(cells, acc, i) ==
    The({ IF ~label.out.ok
          THEN IF label.out.exc = "_NoValueException" THEN Ok(fed) ELSE label.out
          ELSE The({ IF ~data.ok
                     THEN IF data.exc = "_NoValueException" THEN Ok(fed) ELSE data
                     ELSE Ok([fed EXCEPT !.arrow_cells = Append(@, data.val)]) :
                     data \in {ArrowData(cells, i, label.out.val)} }) :
          label \in {ArrowLabel(cells, acc.parser, cells[i])},
          fed \in {[acc EXCEPT !.parser =
                                   ArrowLabel(cells, acc.parser, cells[i]).parser]} })

\* Every name taken for a class.
VerifyIsAnyClass(ric_class) == Ok(ric_class)

\* _verify_is_ric_class
VerifyIsRicClass(ric_class) ==
    IF ric_class \in RicClasses THEN Ok(ric_class)
    ELSE Raise("NotInRiCException", <<ric_class>>)

\* the loop over the classes a label declares (lines 1074 to 1079)
RECURSIVE AddIndividuals(_, _, _, _, _)
AddIndividuals(acc, i, identifier, parent, classes) ==
    IF classes = <<>> THEN Ok(acc)
    ELSE The({ IF ~verified.ok THEN verified
               ELSE IF ~dimensions.ok THEN dimensions
               ELSE The({ AddIndividuals(added, i, identifier, parent, rest) :
                          added \in {[acc EXCEPT !.individual_cells = Append(@,
                                        [cell |-> i,
                                         individual |-> [identifier |-> identifier,
                                                         ric_class |-> verified.val],
                                         dimensions |-> dimensions.val])]},
                          rest \in {Tail(classes)} }) :
               verified \in {VerifyIsRicClass(Strip(Head(classes)))},
               dimensions \in {Dimensions(parent)} })

\* a cell whose label starts with "rico:" (lines 1057 to 1079)
ExtractTyped(cells, acc, i, cell_value) ==
    LET Identified(parent) ==
            IF parent.ok THEN ValueOf(acc.parser, cells[parent.val])
            ELSE Fed(parent, acc.parser)
    IN  The({ The({ IF ~identifier.out.ok
                    THEN IF identifier.out.exc = "_NoValueException"
                         THEN The({ IF ~data.ok
                                    THEN IF data.exc = "_NoValueException"
                                         THEN Ok(fed) ELSE data
                                    ELSE Ok([fed EXCEPT !.arrow_cells =
                                                            Append(@, data.val)]) :
                                    data \in {ArrowData(cells, i, Get(cells[i].value))} })
                         ELSE identifier.out
                    ELSE IF identifier.out.val = <<>> THEN Ok(fed)
                    ELSE The({ AddIndividuals(fed, i, identifier.out.val,
                                              cells[parent.val], classes) :
                               classes \in {Tail(SplitOn(cell_value, RICO))} }) :
                    identifier \in {Identified(parent)},
                    fed \in {[acc EXCEPT !.parser = Identified(parent).parser]} }) :
              parent \in {ParentOf(cells, cells[i])} })

\* one turn of the loop of _extract_individual_and_arrow_and_literal_cells
ExtractCell(cells, acc, i) ==
    IF cells[i].tag # MX_CELL THEN Raise("ParseException", <<cells[i].tag>>)
    ELSE The({ IF ~cell_value.out.ok THEN Ok(fed)
               ELSE IF cell_value.out.val = <<>> THEN AddArrowIfFindLabel(cells, fed, i)
               ELSE IF ~StartsWith(cell_value.out.val, RICO)
                    THEN IF IsPossibleLiteral(cells[i])
                         THEN The({ IF ~dimensions.ok THEN dimensions
                                    ELSE Ok([fed EXCEPT !.literal_cells = Append(@,
                                            [cell |-> i, dimensions |-> dimensions.val])]) :
                                    dimensions \in {Dimensions(cells[i])} })
                         ELSE Ok(fed)
               ELSE ExtractTyped(cells, fed, i, cell_value.out.val) :
               cell_value \in {ValueOf(acc.parser, cells[i])},
               fed \in {[acc EXCEPT !.parser = ValueOf(acc.parser, cells[i]).parser]} })

RECURSIVE ExtractFrom(_, _, _)
ExtractFrom(cells, acc, i) ==
    IF i > Len(cells) THEN Ok(acc)
    ELSE The({ IF r.ok THEN ExtractFrom(cells, r.val, i + 1) ELSE r :
               r \in {ExtractCell(cells, acc, i)} })

\* The extraction that accepts a graph model with no children.
ExtractOfPresent(diagram) ==
    IF IsNone(diagram) THEN Raise("NothingToParseException", <<>>)
    ELSE The({ExtractFrom(cells, NoCells, 1) : cells \in {Get(diagram)}})

\* DrawIOXMLTree._extract_individual_and_arrow_and_literal_cells, on the
\* optional list of the cells of the diagram
Extract(diagram) ==
    IF IsNone(diagram) \/ Get(diagram) = <<>> THEN Raise("NothingToParseException", <<>>)
    ELSE The({ExtractFrom(cells, NoCells, 1) : cells \in {Get(diagram)}})

---------------------------------------------------------------------------
(* DrawIOXMLTree.individuals_and_arrows: the ends of the arrows *)

\* DrawIOXMLTree._close_enough, for a box widened by a gap that is zero
CloseEnoughNoGap(arrow_endpoint, cell_dimensions, max_gap) ==
    /\ cell_dimensions[1] <= arrow_endpoint[1]
    /\ arrow_endpoint[1] <= cell_dimensions[1] + cell_dimensions[3]
    /\ cell_dimensions[2] <= arrow_endpoint[2]
    /\ arrow_endpoint[2] <= cell_dimensions[2] + cell_dimensions[4]

\* DrawIOXMLTree._close_enough, for a box widened by the gap twice
CloseEnoughTwice(arrow_endpoint, cell_dimensions, max_gap) ==
    /\ cell_dimensions[1] - 2 * max_gap <= arrow_endpoint[1]
    /\ arrow_endpoint[1] <= cell_dimensions[1] + cell_dimensions[3] + 2 * max_gap
    /\ cell_dimensions[2] - 2 * max_gap <= arrow_endpoint[2]
    /\ arrow_endpoint[2] <= cell_dimensions[2] + cell_dimensions[4] + 2 * max_gap

\* DrawIOXMLTree._close_enough
CloseEnough(arrow_endpoint, cell_dimensions, max_gap) ==
    /\ cell_dimensions[1] - max_gap <= arrow_endpoint[1]
    /\ arrow_endpoint[1] <= cell_dimensions[1] + cell_dimensions[3] + max_gap
    /\ cell_dimensions[2] - max_gap <= arrow_endpoint[2]
    /\ arrow_endpoint[2] <= cell_dimensions[2] + cell_dimensions[4] + max_gap

\* The cell close to the point that comes first in the diagram, be it an
\* individual cell or a literal cell.
CellCloseToInDocumentOrder(tree, arrow_endpoint, max_gap) ==
    LET individuals == {tree.individual_cells[i].cell : i \in
            {j \in 1..Len(tree.individual_cells) :
                CloseEnough(arrow_endpoint, tree.individual_cells[j].dimensions, max_gap)}}
        literals == {tree.literal_cells[i].cell : i \in
            {j \in 1..Len(tree.literal_cells) :
                CloseEnough(arrow_endpoint, tree.literal_cells[j].dimensions, max_gap)}}
    IN  IF individuals \cup literals # {} THEN Ok(Min(individuals \cup literals))
        ELSE Raise("_NoCellCloseEnoughException", <<>>)

\* DrawIOXMLTree._cell_close_to: the first individual cell close enough,
\* else the first literal cell close enough
CellCloseTo(tree, arrow_endpoint, max_gap) ==
    LET individuals == {i \in 1..Len(tree.individual_cells) :
            CloseEnough(arrow_endpoint, tree.individual_cells[i].dimensions, max_gap)}
        literals == {i \in 1..Len(tree.literal_cells) :
            CloseEnough(arrow_endpoint, tree.literal_cells[i].dimensions, max_gap)}
    IN  IF individuals # {} THEN Ok(tree.individual_cells[Min(individuals)].cell)
        ELSE IF literals # {} THEN Ok(tree.literal_cells[Min(literals)].cell)
        ELSE Raise("_NoCellCloseEnoughException", <<>>)

\* DrawIOXMLTree._defines_individual
DefinesIndividual(tree, identifier) ==
    \E i \in 1..Len(tree.individual_cells) :
        tree.individual_cells[i].individual.identifier = identifier

\* DrawIOXMLTree._source_or_target, with what it leaves in the buffer of the
\* parser of the tree
SourceOrTarget(cells, tree, cell, must_be_individual) ==
    The({ IF ~value.out.ok THEN value
          ELSE IF StartsWith(value.out.val, RICO)
               THEN The({ IF parent.ok THEN ValueOf(value.parser, cells[parent.val])
                          ELSE Fed(parent, value.parser) :
                          parent \in {ParentOf(cells, cell)} })
          ELSE IF must_be_individual /\ ~DefinesIndividual(tree, value.out.val)
               THEN Fed(Raise("_SourceNotIndividualException", <<>>), value.parser)
          ELSE value :
          value \in {ValueOf(tree.parser, cell)} })

SOURCE == <<"s", "o", "u", "r", "c", "e">>
TARGET == <<"t", "a", "r", "g", "e", "t">>

\* The cell at one end of an arrow with strict mode ignored: the geometry
\* is searched whenever the end is not locked.
EndCellLenient(cells, tree, arrow_data, link, point, which, strict_mode, max_gap) ==
    IF IsSome(link) THEN CellWithId(cells, Get(link))
    ELSE IF IsNone(point)
         THEN Raise("NoSourceException",
                    <<which, arrow_data.label, cells[arrow_data.cell].id>>)
    ELSE The({ IF close.ok THEN close
               ELSE Raise("NoSourceException",
                          <<which, arrow_data.label, cells[arrow_data.cell].id>>) :
               close \in {CellCloseTo(tree, Get(point), max_gap)} })

\* The cell at one end of an arrow (lines 1132 to 1148 for the source, 1157
\* to 1173 for the target): the cell the end is locked to, else, unless in
\* strict mode, a cell close to the end's point.  The exception raised is
\* NoSourceException for either end; its message names the end (which), the
\* arrow's label and the id of its cell.
EndCell(cells, tree, arrow_data, link, point, which, strict_mode, max_gap) ==
    IF IsSome(link) THEN CellWithId(cells, Get(link))
    ELSE IF strict_mode \/ IsNone(point)
         THEN Raise("NoSourceException",
                    <<which, arrow_data.label, cells[arrow_data.cell].id>>)
    ELSE The({ IF close.ok THEN close
               ELSE Raise("NoSourceException",
                          <<which, arrow_data.label, cells[arrow_data.cell].id>>) :
               close \in {CellCloseTo(tree, Get(point), max_gap)} })

\* DrawIOXMLTree._arrow, with what it leaves in the buffer of the parser of
\* the tree: the source is read before the target
Arrow(cells, tree, arrow_data, strict_mode, max_gap) ==
    LET arrow_cell == cells[arrow_data.cell]
        Source(source_cell) ==
            IF source_cell.ok
            THEN SourceOrTarget(cells, tree, cells[source_cell.val], TRUE)
            ELSE Fed(source_cell, tree.parser)
        Target(target_cell, parser) ==
            IF target_cell.ok
            THEN SourceOrTarget(cells, [tree EXCEPT !.parser = parser],
                                cells[target_cell.val], FALSE)
            ELSE Fed(target_cell, parser)
        Made(source, target, names) ==
            IF ~target.out.ok THEN target
            ELSE IF Len(names) < 2 THEN Fed(Raise("IndexError", <<>>), target.parser)
            ELSE Fed(Ok([type |-> "Arrow", identifier |-> names[2],
                         source |-> source.out.val, target |-> target.out.val]),
                     target.parser)
    IN  The({ The({ IF ~source.out.ok
                    THEN IF source.out.exc = "_SourceNotIndividualException"
                         THEN Fed(Raise("ArrowWithoutIndividualAsSourceException",
                                        <<arrow_cell.id, arrow_data.label>>),
                                  source.parser)
                         ELSE source
                    ELSE The({ The({ Made(source, target, names) :
                                     target \in {Target(target_cell, source.parser)},
                                     names \in {SplitOn(Strip(arrow_data.label), RICO)} }) :
                               target_cell \in {EndCell(cells, tree, arrow_data,
                                                   arrow_cell.target, arrow_data.end,
                                                   TARGET, strict_mode, max_gap)} }) :
                    source \in {Source(source_cell)} }) :
              source_cell \in {EndCell(cells, tree, arrow_data, arrow_cell.source,
                                       arrow_data.start, SOURCE, strict_mode, max_gap)} })

\* the number of values individuals_and_arrows yields if nothing is raised
ItemCount(tree) == Len(tree.individual_cells) + Len(tree.arrow_cells)

\* The generator with the Arrows first and then the Individuals.
ItemArrowsFirst(cells, tree, k, strict_mode, max_gap) ==
    IF k > Len(tree.arrow_cells)
    THEN Fed(Ok([type |-> "Individual",
                 identifier |->
                     tree.individual_cells[k - Len(tree.arrow_cells)].individual.identifier,
                 ric_class |->
                     tree.individual_cells[k - Len(tree.arrow_cells)].individual.ric_class]),
             tree.parser)
    ELSE Arrow(cells, tree, tree.arrow_cells[k], strict_mode, max_gap)

\* DrawIOXMLTree.individuals_and_arrows: the k-th value of the generator,
\* the Individuals first and then the Arrows, each made when asked for, with
\* what the making leaves in the buffer of the parser of the tree
Item(cells, tree, k, strict_mode, max_gap) ==
    IF k <= Len(tree.individual_cells)
    THEN Fed(Ok([type |-> "Individual",
                 identifier |-> tree.individual_cells[k].individual.identifier,
                 ric_class |-> tree.individual_cells[k].individual.ric_class]),
             tree.parser)
    ELSE Arrow(cells, tree, tree.arrow_cells[k - Len(tree.individual_cells)],
               strict_mode, max_gap)

---------------------------------------------------------------------------
(* The sanitizer: from a label to an identifier *)

OWL_METACHARACTERS == <<"(", ")", "[", "]", "/", ",", ":", ".", "'", "\"">>

IsOwlMetacharacter(c) == \E i \in 1..Len(OWL_METACHARACTERS) : OWL_METACHARACTERS[i] = c

\* str.split(): the words of s, separated by runs of whitespace.  cur is
\* the word being read.
RECURSIVE SplitFrom(_, _, _)
SplitFrom(s, cur, out) ==
    IF s = <<>>
    THEN IF cur # <<>> THEN Append(out, cur) ELSE out
    ELSE IF IsSpace(Head(s))
         THEN SplitFrom(Tail(s), <<>>, IF cur # <<>> THEN Append(out, cur) ELSE out)
         ELSE SplitFrom(Tail(s), Append(cur, Head(s)), out)

Split(s) == SplitFrom(s, <<>>, <<>>)

\* word[0].upper() + word[1:] and word[0].lower() + word[1:], for a word
\* that is not empty
UpperFirst(w) == <<UpperChar(w[1])>> \o Tail(w)
LowerFirst(w) == <<LowerChar(w[1])>> \o Tail(w)

\* _handle_spaces
HandleSpaces(identifier, space_substitute, capitalisation_scheme) ==
    LET Handled(words) ==
        CASE capitalisation_scheme = "upper-camel" ->
                Ok(Join(space_substitute, [i \in 1..Len(words) |-> UpperFirst(words[i])]))
          [] capitalisation_scheme = "lower-camel" ->
                IF words = <<>> THEN Raise("IndexError", <<>>)
                ELSE Ok(Join(space_substitute,
                        [i \in 1..Len(words) |->
                            IF i = 1 THEN LowerFirst(words[i]) ELSE UpperFirst(words[i])]))
          [] capitalisation_scheme = "flat" ->
                Ok(Join(space_substitute, [i \in 1..Len(words) |-> LowerFirst(words[i])]))
          [] capitalisation_scheme = "none" ->
                Ok(Join(space_substitute, words))
          [] OTHER -> Raise("ValueError", <<>>)
    IN  The({Handled(words) : words \in {Split(identifier)}})

\* str.replace(c, by) for a character c
RECURSIVE Replace(_, _, _)
Replace(s, c, by) ==
    IF s = <<>> THEN <<>>
    ELSE IF Head(s) = c THEN by \o Replace(Tail(s), c, by)
    ELSE <<Head(s)>> \o Replace(Tail(s), c, by)

\* the rules of the list for the metacharacter (by their indices)
RulesFor(metacharacter_substitutes, metacharacter) ==
    {i \in 1..Len(metacharacter_substitutes) :
        metacharacter_substitutes[i].to_replace = metacharacter}

\* _replace_metacharacter with its raise left out: a metacharacter without
\* a rule is passed through.
ReplaceMetacharacterLenient(metacharacter, identifier, metacharacter_substitutes) ==
    IF ~HasChar(identifier, metacharacter) THEN Ok(identifier)
    ELSE LET rules == RulesFor(metacharacter_substitutes, metacharacter)
         IN  IF rules # {}
             THEN Ok(Replace(identifier, metacharacter,
                             metacharacter_substitutes[Min(rules)].replacement))
             ELSE Ok(identifier)

\* _replace_metacharacter: the first rule for the metacharacter applies
ReplaceMetacharacter(metacharacter, identifier, metacharacter_substitutes) ==
    IF ~HasChar(identifier, metacharacter) THEN Ok(identifier)
    ELSE LET rules == RulesFor(metacharacter_substitutes, metacharacter)
         IN  IF rules # {}
             THEN Ok(Replace(identifier, metacharacter,
                             metacharacter_substitutes[Min(rules)].replacement))
             ELSE Raise("MetacharacterException", <<<<metacharacter>>, identifier>>)

\* the loop of _replace_metacharacters over OWL_METACHARACTERS, from the
\* i-th on
RECURSIVE ReplaceFrom(_, _, _)
ReplaceFrom(i, identifier, metacharacter_substitutes) ==
    IF i > Len(OWL_METACHARACTERS) THEN Ok(identifier)
    ELSE The({ IF r.ok THEN ReplaceFrom(i + 1, r.val, metacharacter_substitutes) ELSE r :
               r \in {ReplaceMetacharacter(
                          OWL_METACHARACTERS[i], identifier, metacharacter_substitutes)} })

\* The rules of the metacharacters applied first, and the spaces looked for
\* in what they give.
ReplaceMetacharactersSpacesLast(identifier, substitutes, space_substitute, scheme) ==
    The({ IF ~replaced.ok THEN replaced
          ELSE IF HasChar(replaced.val, " ")
               THEN IF IsNone(space_substitute)
                    THEN Raise("MetacharacterException", <<<<" ">>, replaced.val>>)
                    ELSE HandleSpaces(replaced.val, Get(space_substitute), scheme)
          ELSE IF scheme \in {"lower-camel", "flat"}
               THEN IF replaced.val = <<>> THEN Raise("IndexError", <<>>)
                    ELSE Ok(LowerFirst(replaced.val))
          ELSE replaced :
          replaced \in {ReplaceFrom(1, identifier, substitutes)} })

\* _replace_metacharacters
ReplaceMetacharacters(identifier, substitutes, space_substitute, scheme) ==
    IF HasChar(identifier, " ")
    THEN IF IsNone(space_substitute)
         THEN Raise("MetacharacterException", <<<<" ">>, identifier>>)
         ELSE The({ IF r.ok THEN ReplaceFrom(1, r.val, substitutes) ELSE r :
                    r \in {HandleSpaces(identifier, Get(space_substitute), scheme)} })
    ELSE IF scheme \in {"lower-camel", "flat"}
         THEN IF identifier = <<>> THEN Raise("IndexError", <<>>)
              ELSE The({ ReplaceFrom(1, lowered, substitutes) :
                         lowered \in {LowerFirst(identifier)} })
         ELSE ReplaceFrom(1, identifier, substitutes)

---------------------------------------------------------------------------
(* individual_blocks: the blocks of the individuals                      *)
(*                                                                       *)
(* Blocks is a dict, which keeps its keys in the order of their          *)
(* insertion: a sequence of [key |-> <<identifier, label>>, entries],    *)
(* where entries, a dict of sets too, is a sequence of                   *)
(* [name |-> "Types" or a property, values |-> a set of texts].          *)
(***************************************************************************)

TYPES == <<"T", "y", "p", "e", "s">>

\* the index of the block with the key, or 0
BlockIndex(blocks, key) ==
    IF \E i \in 1..Len(blocks) : blocks[i].key = key
    THEN CHOOSE i \in 1..Len(blocks) : blocks[i].key = key
    ELSE 0

\* the index of the entry with the name, or 0
EntryIndex(entries, name) ==
    IF \E i \in 1..Len(entries) : entries[i].name = name
    THEN CHOOSE i \in 1..Len(entries) : entries[i].name = name
    ELSE 0

\* blocks[key][name].add(value), the block and the entry being made if they
\* are missing (lines 1265 to 1274 and 1318 to 1327)
AddValue(blocks, key, name, value) ==
    LET b == BlockIndex(blocks, key)
    IN  IF b = 0
        THEN Append(blocks, [key |-> key,
                             entries |-> <<[name |-> name, values |-> {value}]>>])
        ELSE LET e == EntryIndex(blocks[b].entries, name)
             IN  IF e = 0
                 THEN [blocks EXCEPT ![b].entries =
                          Append(@, [name |-> name, values |-> {value}])]
                 ELSE [blocks EXCEPT ![b].entries[e].values = @ \cup {value}]

\* _add_individual_type
AddIndividualType(blocks, individual, substitutes, space_substitute, scheme) ==
    The({ IF ~individual_id.ok THEN individual_id
          ELSE Ok(AddValue(blocks, <<individual_id.val, individual.identifier>>,
                           TYPES, individual.ric_class)) :
          individual_id \in {ReplaceMetacharacters(
              individual.identifier, substitutes, space_substitute, scheme)} })

\* The target of an arrow as it is recorded, with a name that is in neither
\* vocabulary taken for a datatype property.
TargetIdentifierAnyName(arrow, substitutes, space_substitute, scheme) ==
    IF arrow.identifier \in RicObjectProperties
    THEN ReplaceMetacharacters(arrow.target, substitutes, space_substitute, scheme)
    ELSE Ok(arrow.target)

\* The target sanitized whatever the property is.
TargetIdentifierSanitized(arrow, substitutes, space_substitute, scheme) ==
    IF arrow.identifier \in RicObjectProperties \cup RicDatatypeProperties
    THEN ReplaceMetacharacters(arrow.target, substitutes, space_substitute, scheme)
    ELSE Raise("NotInRiCException", <<arrow.identifier>>)

\* The target of an arrow as it is recorded (lines 1301 to 1312): sanitized
\* for an object property, as it is for a datatype property
TargetIdentifier(arrow, substitutes, space_substitute, scheme) ==
    IF arrow.identifier \in RicObjectProperties
    THEN ReplaceMetacharacters(arrow.target, substitutes, space_substitute, scheme)
    ELSE IF arrow.identifier \in RicDatatypeProperties
         THEN Ok(arrow.target)
    ELSE Raise("NotInRiCException", <<arrow.identifier>>)

\* The body of the loop for an Arrow with the fact recorded for the target
\* of the arrow, about its source.
AddArrowReversed(blocks, arrow, substitutes, space_substitute, scheme) ==
    The({ IF ~target_identifier.ok THEN target_identifier
          ELSE The({ IF ~source_identifier.ok THEN source_identifier
                     ELSE Ok(AddValue(blocks, <<target_identifier.val, arrow.target>>,
                                      arrow.identifier, source_identifier.val)) :
                     source_identifier \in {ReplaceMetacharacters(
                         arrow.source, substitutes, space_substitute, scheme)} }) :
          target_identifier \in {TargetIdentifier(
              arrow, substitutes, space_substitute, scheme)} })

\* the body of the loop of individual_blocks for an Arrow
AddArrow(blocks, arrow, substitutes, space_substitute, scheme) ==
    The({ IF ~target_identifier.ok THEN target_identifier
          ELSE The({ IF ~source_identifier.ok THEN source_identifier
                     ELSE Ok(AddValue(blocks, <<source_identifier.val, arrow.source>>,
                                      arrow.identifier, target_identifier.val)) :
                     source_identifier \in {ReplaceMetacharacters(
                         arrow.source, substitutes, space_substitute, scheme)} }) :
          target_identifier \in {TargetIdentifier(
              arrow, substitutes, space_substitute, scheme)} })

\* The loop of individual_blocks from the k-th value of the iterator on.
\* The iterator is the sequence of the outcomes of its calls of next(): a
\* value, or the exception raised in place of it.  The result holds the
\* blocks as they are when the function is left, the exception if it is
\* left by one, and the number of the calls of next() that it has made and
\* that have not ended the iteration.
RECURSIVE IndividualBlocksFrom(_, _, _, _, _, _)
IndividualBlocksFrom(items, k, blocks, substitutes, space_substitute, scheme) ==
    IF k > Len(items) THEN [blocks |-> blocks, raised |-> None, consumed |-> Len(items)]
    ELSE IF ~items[k].ok
         THEN [blocks |-> blocks, raised |-> Some(items[k]), consumed |-> k]
    ELSE The({ IF ~r.ok THEN [blocks |-> blocks, raised |-> Some(r), consumed |-> k]
               ELSE IndividualBlocksFrom(items, k + 1, r.val, substitutes,
                                         space_substitute, scheme) :
               r \in {IF items[k].val.type = "Individual"
                      THEN AddIndividualType(blocks, items[k].val, substitutes,
                                             space_substitute, scheme)
                      ELSE AddArrow(blocks, items[k].val, substitutes,
                                    space_substitute, scheme)} })

\* individual_blocks
IndividualBlocks(items, substitutes, space_substitute, scheme) ==
    The({ IndividualBlocksFrom(iterator, 1, <<>>, substitutes, space_substitute, scheme) :
          iterator \in {items} })

\* DrawIOXMLTree.individuals_and_arrows as the iterator individual_blocks
\* consumes: every value up to the first exception, each with what the
\* parser of the tree keeps once it is made; a value is made with the
\* parser as the value before left it
RECURSIVE GeneratedFrom(_, _, _, _, _)
GeneratedFrom(cells, tree, k, strict_mode, max_gap) ==
    IF k > ItemCount(tree) THEN <<>>
    ELSE The({ IF item.out.ok
               THEN <<item>>
                    \o GeneratedFrom(cells, [tree EXCEPT !.parser = item.parser],
                                     k + 1, strict_mode, max_gap)
               ELSE <<item>> :
               item \in {Item(cells, tree, k, strict_mode, max_gap)} })

\* the values of the generator, or the exception that ends it, in order
IndividualsAndArrows(cells, tree, strict_mode, max_gap) ==
    The({ [k \in 1..Len(made) |-> made[k].out] :
          made \in {GeneratedFrom(cells, tree, 1, strict_mode, max_gap)} })

\* what the parser of the tree keeps when individual_blocks has asked the
\* generator for n values: the generator makes a value when it is asked
ParserAfter(cells, tree, n, strict_mode, max_gap) ==
    IF n = 0 THEN tree.parser
    ELSE GeneratedFrom(cells, tree, 1, strict_mode, max_gap)[n].parser

---------------------------------------------------------------------------
(* serialise: the blocks in OWL Manchester syntax *)

\* a < b for two strings: by code point, a proper prefix first
RECURSIVE LessStr(_, _)
LessStr(a, b) ==
    IF b = <<>> THEN FALSE
    ELSE IF a = <<>> THEN TRUE
    ELSE IF Head(a) = Head(b) THEN LessStr(Tail(a), Tail(b))
    ELSE Ord(Head(a)) < Ord(Head(b))

\* The values from the greatest down.
RECURSIVE SortedDescending(_)
SortedDescending(values) ==
    IF values = {} THEN <<>>
    ELSE The({ <<greatest>> \o The({SortedDescending(rest) : rest \in {values \ {greatest}}}) :
               greatest \in {CHOOSE v \in values : \A w \in values \ {v} : LessStr(w, v)} })

\* the orders in which a set may give its members when it is iterated
Iterations(values) ==
    {l \in [1..Cardinality(values) -> values] :
        \A i, j \in 1..Cardinality(values) : l[i] = l[j] => i = j}

\* sorted(list) for a list of strings: each string comes before the first
\* string of the sorted rest that is not less than it
RECURSIVE SortedList(_)
SortedList(list) ==
    IF list = <<>> THEN <<>>
    ELSE The({ The({ SubSeq(rest, 1, before) \o <<Head(list)>>
                     \o SubSeq(rest, before + 1, Len(rest)) :
                     before \in {Cardinality({i \in 1..Len(rest) :
                                                 LessStr(rest[i], Head(list))})} }) :
               rest \in {SortedList(Tail(list))} })

\* sorted(values) for a set of strings, which is iterated in one of its
\* orders
Sorted(values) == SortedList(CHOOSE l \in Iterations(values) : TRUE)

\* ' ' * n
Spaces(n) == [i \in 1..n |-> " "]

\* literal.isnumeric()
IsNumeric(literal) == literal # <<>> /\ \A i \in 1..Len(literal) : IsDigit(literal[i])

\* the number a string of digits denotes
RECURSIVE IntOf(_)
IntOf(digits) ==
    IF digits = <<>> THEN 0
    ELSE 10 * IntOf(SubSeq(digits, 1, Len(digits) - 1)) + (Ord(digits[Len(digits)]) - 48)

\* A format of strptime is a sequence of directives and characters.
Directive(c) == [directive |-> TRUE, c |-> c]
Character(c) == [directive |-> FALSE, c |-> c]

\* "%Y-%m-%d"
DATE_FORMAT ==
    <<Directive("Y"), Character("-"), Directive("m"), Character("-"), Directive("d")>>

\* "%Y-%m-%dT%H-%M-%S"
DATE_TIME_FORMAT ==
    DATE_FORMAT \o <<Character("T"), Directive("H"), Character("-"), Directive("M"),
                     Character("-"), Directive("S")>>

\* "%H:%M"
OFFSET_FORMAT == <<Directive("H"), Character(":"), Directive("M")>>

DATE_TIME_FORMAT_TEXT == <<"%", "Y", "-", "%", "m", "-", "%", "d", "T", "%", "H", "-", "%", "M", "-", "%", "S">>

\* the digits at data[i], data[i+1], ... data[i+n-1], if they are digits
DigitsAt(data, i, n) ==
    IF i + n - 1 <= Len(data) /\ \A k \in i..(i + n - 1) : IsDigit(data[k])
    THEN Some(IntOf(SubSeq(data, i, i + n - 1)))
    ELSE None

\* The lengths of the texts at data[i] that the regular expression of a
\* directive matches, in the order in which it tries them: %Y four digits;
\* %m 1[0-2], 0[1-9], [1-9]; %d 3[01], [12]\d, 0[1-9], [1-9], a space and
\* [1-9]; %H 2[0-3], [0-1]\d, \d; %M [0-5]\d, \d; %S 6[01], [0-5]\d, \d.
Candidates(data, i, c) ==
    LET two == DigitsAt(data, i, 2)
        one == DigitsAt(data, i, 1)
        first == IF one = None THEN 0 - 1 ELSE Get(one)
        twoOk == /\ two # None
                 /\ CASE c = "m" -> Get(two) >= 1 /\ Get(two) <= 12
                      [] c = "d" -> Get(two) >= 1 /\ Get(two) <= 31
                      [] c = "H" -> Get(two) <= 23
                      [] c = "M" -> Get(two) <= 59
                      [] c = "S" -> Get(two) <= 61
                      [] OTHER -> FALSE
        oneOk == /\ one # None
                 /\ (c \in {"m", "d"} => first >= 1)
        padded == /\ c = "d"
                  /\ i + 1 <= Len(data)
                  /\ data[i] = " "
                  /\ IsDigit(data[i + 1])
                  /\ data[i + 1] # "0"
    IN  IF c = "Y"
        THEN IF DigitsAt(data, i, 4) # None THEN <<4>> ELSE <<>>
        ELSE (IF twoOk THEN <<2>> ELSE <<>>) \o (IF oneOk THEN <<1>> ELSE <<>>)
             \o (IF padded THEN <<2>> ELSE <<>>)

\* The match of the regular expression of the format, from its j-th item
\* on, against the data from data[i] on: the fields found and the index
\* after the match, or None.  Characters are matched without regard to
\* case; of the texts a directive may match, the first in the order of its
\* regular expression with which the rest of the format matches is taken.
RECURSIVE MatchFrom(_, _, _, _, _)
RECURSIVE MatchFirst(_, _, _, _, _, _)
MatchFrom(data, i, format, j, fields) ==
    IF j > Len(format) THEN Some([fields |-> fields, end |-> i])
    ELSE IF ~format[j].directive
         THEN IF i <= Len(data) /\ LowerChar(data[i]) = LowerChar(format[j].c)
              THEN MatchFrom(data, i + 1, format, j + 1, fields)
              ELSE None
    ELSE MatchFirst(data, i, format, j, fields, Candidates(data, i, format[j].c))

MatchFirst(data, i, format, j, fields, lengths) ==
    IF lengths = <<>> THEN None
    ELSE LET n == Head(lengths)
             value == IntOf(Strip(SubSeq(data, i, i + n - 1)))
         IN  The({ IF rest # None THEN rest
                   ELSE MatchFirst(data, i, format, j, fields, Tail(lengths)) :
                   rest \in {MatchFrom(data, i + n, format, j + 1,
                                       [fields EXCEPT ![format[j].c] = value])} })

IsLeapYear(y) == y % 4 = 0 /\ (y % 100 # 0 \/ y % 400 = 0)

DaysInMonth(y, m) ==
    IF m = 2 THEN (IF IsLeapYear(y) THEN 29 ELSE 28)
    ELSE IF m \in {4, 6, 9, 11} THEN 30 ELSE 31

\* datetime.strptime(data, format) does not raise ValueError: the format
\* matches all of the data, and the fields make a date and a time
Strptime(data, format) ==
    LET found == MatchFrom(data, 1, format, 1,
                     [Y |-> 1900, m |-> 1, d |-> 1, H |-> 0, M |-> 0, S |-> 0])
    IN  /\ found # None
        /\ Get(found).end = Len(data) + 1
        /\ LET f == Get(found).fields
           IN  /\ f.Y >= 1
               /\ f.d <= DaysInMonth(f.Y, f.m)
               /\ f.S <= 59

\* The literal, read as a format, is made of characters only and matches
\* the data: a "%" of the data is written "%%" in a format, and every
\* directive but "%%" needs text the data does not have.
RECURSIVE FormatMatches(_, _)
FormatMatches(format, data) ==
    IF format = <<>> THEN data = <<>>
    ELSE IF data = <<>> THEN FALSE
    ELSE IF Head(format) = "%"
         THEN /\ Len(format) >= 2
              /\ format[2] = "%"
              /\ Head(data) = "%"
              /\ FormatMatches(SubSeq(format, 3, Len(format)), Tail(data))
    ELSE /\ ~IsSpace(Head(format))
         /\ LowerChar(Head(format)) = LowerChar(Head(data))
         /\ FormatMatches(Tail(format), Tail(data))

\* the directives strptime knows
DIRECTIVES ==
    {"%", "A", "B", "G", "H", "I", "M", "S", "U", "V", "W", "X", "Y", "Z", "a", "b",
     "c", "d", "f", "j", "m", "p", "u", "w", "x", "y", "z"}

\* The named groups of the regular expression of a directive: its own
\* letter, none for "%%", and those of the format that "%c" ("%a %b %d
\* %H:%M:%S %Y"), "%x" ("%m/%d/%y") and "%X" ("%H:%M:%S") stand for.
GroupsOf(c) ==
    CASE c = "%" -> <<>>
      [] c = "c" -> <<"a", "b", "d", "H", "M", "S", "Y">>
      [] c = "x" -> <<"m", "d", "y">>
      [] c = "X" -> <<"H", "M", "S">>
      [] OTHER -> <<c>>

\* The characters a format has after its "%"s, from left to right, each "%"
\* taking the character after it; "" for a "%" that is the last character.
RECURSIVE DirectivesOf(_)
DirectivesOf(format) ==
    IF format = <<>> THEN <<>>
    ELSE IF Head(format) # "%" THEN DirectivesOf(Tail(format))
    ELSE IF Len(format) = 1 THEN <<"">>
    ELSE <<format[2]>> \o DirectivesOf(SubSeq(format, 3, Len(format)))

\* the named groups of the regular expression of a format, in order
RECURSIVE GroupsIn(_)
GroupsIn(directives) ==
    IF directives = <<>> THEN <<>>
    ELSE GroupsOf(Head(directives)) \o GroupsIn(Tail(directives))

\* What the making of the regular expression of a format raises: a
\* ValueError for a directive strptime does not know or a "%" at the end, an
\* re.error ("error") for a group named twice, "none" otherwise.  The
\* directives are looked up before the expression is compiled.
FormatError(format) ==
    LET directives == DirectivesOf(format)
        groups == GroupsIn(directives)
    IN  IF \E k \in 1..Len(directives) : directives[k] \notin DIRECTIVES
        THEN "ValueError"
        ELSE IF \E j, k \in 1..Len(groups) : j < k /\ groups[j] = groups[k]
        THEN "error"
        ELSE "none"

Quoted(literal) == <<"\"">> \o literal \o <<"\"">>

XSD_INTEGER == <<"^", "^", "x", "s", "d", ":", "i", "n", "t", "e", "g", "e", "r">>
XSD_DATE == <<"^", "^", "x", "s", "d", ":", "d", "a", "t", "e">>
XSD_DATE_TIME == <<"^", "^", "x", "s", "d", ":", "d", "a", "t", "e", "T", "i", "m", "e">>

\* _infer_type; literal[-1] and literal[-6] raise IndexError on a literal
\* that is too short, and the literal read as a format (line 1354) raises
\* re.error, which is no ValueError, if it names a group twice
InferType(literal) ==
    IF IsNumeric(literal) THEN Ok(Quoted(literal) \o XSD_INTEGER)
    ELSE IF Strptime(literal, DATE_FORMAT) THEN Ok(Quoted(literal) \o XSD_DATE)
    ELSE IF literal = <<>> THEN Raise("IndexError", <<>>)
    ELSE IF literal[Len(literal)] = "Z"
         THEN IF Strptime(<<"Z">>, DATE_TIME_FORMAT)
              THEN Ok(Quoted(literal) \o XSD_DATE_TIME)
              ELSE Ok(Quoted(literal))
    ELSE IF Len(literal) < 6 THEN Raise("IndexError", <<>>)
    ELSE IF literal[Len(literal) - 5] \in {"+", "-"}
         THEN IF /\ Strptime(SubSeq(literal, 1, Len(literal) - 6), DATE_TIME_FORMAT)
                 /\ Strptime(SubSeq(literal, Len(literal) - 4, Len(literal)), OFFSET_FORMAT)
              THEN Ok(Quoted(literal) \o XSD_DATE_TIME)
              ELSE Ok(Quoted(literal))
    ELSE IF FormatError(literal) = "error" THEN Raise("error", <<>>)
    ELSE IF FormatMatches(literal, DATE_TIME_FORMAT_TEXT)
         THEN Ok(Quoted(literal) \o XSD_DATE_TIME)
         ELSE Ok(Quoted(literal))

\* prefix + ":" if there is a prefix that is not empty
PrefixString(prefix) ==
    IF IsSome(prefix) /\ Get(prefix) # <<>> THEN Get(prefix) \o <<":">> ELSE <<>>

\* one fact: f"rico:{_property} {formatted_value}"
Fact(property, formatted_value) == RICO \o property \o <<" ">> \o formatted_value

\* the value of a fact as it is written (lines 1371 to 1377)
FormattedValue(property, value, infer_type_of_literals, prefix) ==
    IF property \in RicDatatypeProperties
    THEN IF infer_type_of_literals THEN InferType(value) ELSE Ok(Quoted(value))
    ELSE Ok(PrefixString(prefix) \o value)

\* the inner loop of _serialise_facts over the sorted values of a property
RECURSIVE SerialiseValues(_, _, _, _, _)
SerialiseValues(property, values, infer_type_of_literals, prefix, out) ==
    IF values = <<>> THEN Ok(out)
    ELSE The({ IF ~v.ok THEN v
               ELSE The({ SerialiseValues(property, rest, infer_type_of_literals,
                                          prefix, added) :
                          rest \in {Tail(values)},
                          added \in {Append(out, Fact(property, v.val))} }) :
               v \in {FormattedValue(property, Head(values),
                                     infer_type_of_literals, prefix)} })

\* the outer loop of _serialise_facts over the properties, in the order of
\* their insertion
RECURSIVE SerialiseFactsFrom(_, _, _, _, _)
SerialiseFactsFrom(facts, i, infer_type_of_literals, prefix, out) ==
    IF i > Len(facts) THEN Ok(out)
    ELSE The({ IF ~r.ok THEN r
               ELSE SerialiseFactsFrom(facts, i + 1, infer_type_of_literals, prefix, r.val) :
               r \in {The({ SerialiseValues(facts[i].name, values,
                                            infer_type_of_literals, prefix, out) :
                            values \in {Sorted(facts[i].values)} })} })

\* list(_serialise_facts(facts, infer_type_of_literals, prefix))
SerialiseFacts(facts, infer_type_of_literals, prefix) ==
    SerialiseFactsFrom(facts, 1, infer_type_of_literals, prefix, <<>>)

INDIVIDUAL == <<"I", "n", "d", "i", "v", "i", "d", "u", "a", "l", ":", " ">>
ANNOTATIONS == <<"A", "n", "n", "o", "t", "a", "t", "i", "o", "n", "s", ":">>
RDFS_LABEL == <<"r", "d", "f", "s", ":", "l", "a", "b", "e", "l", " ">>
TYPES_LINE == <<"T", "y", "p", "e", "s", ":", " ">>
FACTS_LINE == <<"F", "a", "c", "t", "s", ":">>

\* the header of a block (lines 1394 to 1397)
Header(individual_identifier, individual_label, config) ==
    INDIVIDUAL \o PrefixString(config.prefix) \o individual_identifier
    \o (IF config.include_label
        THEN <<"\n">> \o Spaces(config.indentation) \o ANNOTATIONS
             \o <<"\n">> \o Spaces(config.indentation * 2) \o RDFS_LABEL
             \o Quoted(individual_label)
        ELSE <<>>)

\* the line of the types: the classes sorted
TypesString(types) ==
    The({ Join(<<",", " ">>, [i \in 1..Len(classes) |-> RICO \o classes[i]]) :
          classes \in {Sorted(types)} })

\* the lines of the facts (lines 1409 to 1411); serialised_facts[-1]
\* raises IndexError when there is no fact, which is when every property
\* of the block has an empty set of values
FactsString(serialised_facts, indentation) ==
    LET n == Len(serialised_facts)
        separator == <<",", "\n">> \o Spaces(indentation * 2)
    IN  IF n = 0 THEN Raise("IndexError", <<>>)
        ELSE Ok(Join(separator, SubSeq(serialised_facts, 1, n - 1))
                \o (IF n > 1 THEN separator \o serialised_facts[n]
                    ELSE serialised_facts[n]))

\* the entries of a block but the one of its types
WithoutTypes(entries) == SelectSeq(entries, LAMBDA e : e.name # TYPES)

\* _serialise_block
SerialiseBlock(individual_identifier, individual_label, types_and_facts, config) ==
    LET header == Header(individual_identifier, individual_label, config)
        TypesLine(t) == header \o <<"\n">> \o Spaces(config.indentation) \o TYPES_LINE
                        \o TypesString(types_and_facts[t].values) \o <<"\n">>
        WithFacts(types_line, serialised_facts) ==
            IF ~serialised_facts.ok THEN serialised_facts
            ELSE The({ IF ~facts_string.ok THEN facts_string
                       ELSE Ok(types_line \o Spaces(config.indentation) \o FACTS_LINE
                               \o <<"\n">> \o Spaces(config.indentation * 2)
                               \o facts_string.val \o <<"\n", "\n">>) :
                       facts_string \in {FactsString(serialised_facts.val,
                                                     config.indentation)} })
    IN  The({ IF t = 0 THEN Raise("KeyError", <<TYPES>>)
              ELSE IF facts = <<>> THEN Ok(TypesLine(t) \o <<"\n">>)
              ELSE The({ WithFacts(types_line, serialised_facts) :
                         types_line \in {TypesLine(t)},
                         serialised_facts \in {SerialiseFacts(
                             facts, config.infer_type_of_literals, config.prefix)} }) :
              t \in {EntryIndex(types_and_facts, TYPES)},
              facts \in {WithoutTypes(types_and_facts)} })

\* two digits for a number below 100
TwoDigits(n) == <<Chr(48 + (n \div 10)), Chr(48 + (n % 10))>>

\* The clock counts the seconds of one minute, which is this one.
CLOCK_MINUTE == <<"2", "0", "2", "4", "-", "0", "4", "-", "2", "6", "T", "0", "1", "-", "3", "1", "-">>

\* datetime.strftime(datetime.now(), "%Y-%m-%dT%H-%M-%S") when the clock
\* reads now
CurrentTime(now) == CLOCK_MINUTE \o TwoDigits(now)

GENERATED_IRI == <<"o", "n", "t", "o", "l", "o", "g", "y", ":", "/", "/", "g", "e", "n", "e", "r", "a", "t", "e", "d", "-", "f", "r", "o", "m", "-", "d", "r", "a", "w", "-", "i", "o", "/">>
PREFIX_RDFS == <<"P", "r", "e", "f", "i", "x", ":", " ", "r", "d", "f", "s", ":", " ", "<", "h", "t", "t", "p", ":", "/", "/", "w", "w", "w", ".", "w", "3", ".", "o", "r", "g", "/", "2", "0", "0", "0", "/", "0", "1", "/", "r", "d", "f", "-", "s", "c", "h", "e", "m", "a", "#", ">", "\n">>
PREFIX_RICO == <<"P", "r", "e", "f", "i", "x", ":", " ", "r", "i", "c", "o", ":", " ", "<", "h", "t", "t", "p", "s", ":", "/", "/", "w", "w", "w", ".", "i", "c", "a", ".", "o", "r", "g", "/", "s", "t", "a", "n", "d", "a", "r", "d", "s", "/", "R", "i", "C", "/", "o", "n", "t", "o", "l", "o", "g", "y", "#", ">", "\n">>
PREFIX == <<"P", "r", "e", "f", "i", "x", ":", " ">>
ONTOLOGY == <<"O", "n", "t", "o", "l", "o", "g", "y", ":", " ", "<">>
IMPORT == <<"I", "m", "p", "o", "r", "t", ":", " ", "<", "h", "t", "t", "p", "s", ":", "/", "/", "w", "w", "w", ".", "i", "c", "a", ".", "o", "r", "g", "/", "s", "t", "a", "n", "d", "a", "r", "d", "s", "/", "R", "i", "C", "/", "o", "n", "t", "o", "l", "o", "g", "y", ">", "\n", "\n">>

\* The IRI of the ontology made of the current time whether one is given or
\* not.
OntologyIriStringOfTime(config, now) == GENERATED_IRI \o CurrentTime(now)

\* the IRI of the ontology: the one given, or one made of the current time
OntologyIriString(config, now) ==
    IF IsSome(config.ontology_iri) /\ Get(config.ontology_iri) # <<>>
    THEN Get(config.ontology_iri)
    ELSE GENERATED_IRI \o CurrentTime(now)

\* _preamble, when the clock reads now
Preamble(config, now) ==
    LET ontology_iri_string == The({iri : iri \in {OntologyIriString(config, now)}})
        prefix_string == IF IsSome(config.prefix) THEN Get(config.prefix) ELSE <<>>
        prefix_iri == IF IsSome(config.prefix_iri) /\ Get(config.prefix_iri) # <<>>
                      THEN <<"<">> \o Get(config.prefix_iri) \o <<">">>
                      ELSE <<"<">> \o ontology_iri_string \o <<"#", ">">>
    IN  (IF config.include_label THEN PREFIX_RDFS ELSE <<>>)
        \o PREFIX_RICO
        \o PREFIX \o prefix_string \o <<":", " ">> \o prefix_iri \o <<"\n">>
        \o ONTOLOGY \o ontology_iri_string \o <<">", "\n">>
        \o Spaces(config.indentation) \o IMPORT

\* the loop of serialise over the blocks, in the order of their insertion:
\* the texts of the blocks
RECURSIVE SerialiseBlocksFrom(_, _, _, _)
SerialiseBlocksFrom(blocks, i, config, out) ==
    IF i > Len(blocks) THEN Ok(out)
    ELSE The({ IF ~r.ok THEN r
               ELSE The({ SerialiseBlocksFrom(blocks, i + 1, config, added) :
                          added \in {Append(out, r.val)} }) :
               r \in {SerialiseBlock(blocks[i].key[1], blocks[i].key[2],
                                     blocks[i].entries, config)} })

SerialiseBlocks(blocks, config) == SerialiseBlocksFrom(blocks, 1, config, <<>>)

\* serialise, when the clock reads now
Serialise(blocks, config, now) ==
    The({ IF ~texts.ok THEN texts
          ELSE Ok((IF config.include_preamble THEN Preamble(config, now) ELSE <<>>)
                  \o Concat(texts.val)) :
          texts \in {SerialiseBlocks(blocks, config)} })

---------------------------------------------------------------------------
(* The options of the command line *)

DEFAULT_CAPITALISATION_SCHEME == "upper-camel"
DEFAULT_INDENTATION == 2
DEFAULT_MAX_GAP == 10

REMOVE == <<"r", "e", "m", "o", "v", "e">>
URL == <<"u", "r", "l">>
URL_SPACE == <<"%", "2", "0">>

\* the arguments when no option is given (the defaults of _arguments_parser)
DefaultArguments ==
    [preamble_disable |-> FALSE,
     max_gap |-> DEFAULT_MAX_GAP,
     infer_types_disable |-> FALSE,
     indentation |-> DEFAULT_INDENTATION,
     ontology_iri |-> None,
     prefix_iri |-> None,
     strict_mode |-> FALSE,
     prefix |-> None,
     metacharacter_substitute |-> <<>>,
     label_disable |-> FALSE,
     capitalisation_scheme |-> DEFAULT_CAPITALISATION_SCHEME]

\* the SerialisationConfig _run makes of the arguments (lines 1698 to 1705)
SerialisationConfigOf(args) ==
    [infer_type_of_literals |-> ~args.infer_types_disable,
     include_preamble |-> ~args.preamble_disable,
     ontology_iri |-> args.ontology_iri,
     prefix |-> args.prefix,
     prefix_iri |-> args.prefix_iri,
     indentation |-> args.indentation,
     include_label |-> ~args.label_disable]

\* The loop of _parse_space_substitute from the i-th definition on
RECURSIVE ParseSpaceFrom(_, _, _, _)
ParseSpaceFrom(definitions, i, has_remove, has_url) ==
    IF i > Len(definitions)
    THEN IF has_remove THEN Ok(Some(<<>>))
         ELSE IF has_url THEN Ok(Some(URL_SPACE))
         ELSE Ok(None)
    ELSE LET definition == definitions[i]
             remove == has_remove \/ definition = REMOVE
             url == IF definition = REMOVE /\ ~has_url THEN has_url
                    ELSE has_url \/ definition = URL
         IN  IF definition = REMOVE /\ ~has_url
             THEN ParseSpaceFrom(definitions, i + 1, remove, url)
             ELSE IF definition = URL /\ ~remove
             THEN ParseSpaceFrom(definitions, i + 1, remove, url)
             ELSE IF definition = <<>> THEN Raise("IndexError", <<>>)
             ELSE IF definition[1] # " " /\ ~url
             THEN ParseSpaceFrom(definitions, i + 1, remove, url)
             ELSE IF Len(definition) < 2 THEN Raise("IndexError", <<>>)
             ELSE IF definition[2] # "="
             THEN Raise("_MetacharacterSubstituteParseException", <<definition>>)
             ELSE Ok(Some(SplitOn(definition, <<"=">>)[2]))

\* _parse_space_substitute
ParseSpaceSubstitute(definitions) == ParseSpaceFrom(definitions, 1, FALSE, FALSE)

\* urllib.parse.quote(metacharacter, safe=''): the full stop is not escaped
UrlQuote(metacharacter) ==
    CASE metacharacter = "(" -> <<"%", "2", "8">>
      [] metacharacter = ")" -> <<"%", "2", "9">>
      [] metacharacter = "[" -> <<"%", "5", "B">>
      [] metacharacter = "]" -> <<"%", "5", "D">>
      [] metacharacter = "/" -> <<"%", "2", "F">>
      [] metacharacter = "," -> <<"%", "2", "C">>
      [] metacharacter = ":" -> <<"%", "3", "A">>
      [] metacharacter = "." -> <<".">>
      [] metacharacter = "'" -> <<"%", "2", "7">>
      [] metacharacter = "\"" -> <<"%", "2", "2">>

\* the rules _parse_metacharacter_substitutes yields after its loop, for
\* the metacharacters that no definition has handled (lines 1535 to 1540)
BlanketRules(handled, has_url) ==
    LET unhandled == SelectSeq(OWL_METACHARACTERS, LAMBDA m : m \notin handled)
    IN  [i \in 1..Len(unhandled) |->
            [to_replace |-> unhandled[i],
             replacement |-> IF has_url THEN UrlQuote(unhandled[i]) ELSE <<>>]]

\* The loop of _parse_metacharacter_substitutes from the i-th definition on
RECURSIVE ParseMetacharactersFrom(_, _, _, _, _, _)
ParseMetacharactersFrom(definitions, i, has_remove, has_url, handled, out) ==
    IF i > Len(definitions) THEN Ok(out \o BlanketRules(handled, has_url))
    ELSE LET definition == definitions[i]
             remove == has_remove \/ definition = REMOVE
             url == IF definition = REMOVE /\ ~has_url THEN has_url
                    ELSE has_url \/ definition = URL
         IN  IF definition = <<>> THEN Raise("IndexError", <<>>)
             ELSE IF definition[1] = " "
             THEN ParseMetacharactersFrom(definitions, i + 1, has_remove, has_url,
                                          handled, out)
             ELSE IF definition = REMOVE /\ ~has_url
             THEN ParseMetacharactersFrom(definitions, i + 1, remove, url, handled, out)
             ELSE IF definition = URL /\ ~remove
             THEN ParseMetacharactersFrom(definitions, i + 1, remove, url, handled, out)
             ELSE IF ~IsOwlMetacharacter(definition[1])
             THEN Raise("_MetacharacterSubstituteParseException", <<definition>>)
             ELSE IF Len(definition) < 2 THEN Raise("IndexError", <<>>)
             ELSE IF definition[2] # "="
             THEN Raise("_MetacharacterSubstituteParseException", <<definition>>)
             ELSE ParseMetacharactersFrom(definitions, i + 1, remove, url,
                      handled \cup {definition[1]},
                      Append(out, [to_replace |-> definition[1],
                                   replacement |-> SubSeq(definition, 3, Len(definition))]))

\* list(_parse_metacharacter_substitutes(definitions))
ParseMetacharacterSubstitutes(definitions) ==
    ParseMetacharactersFrom(definitions, 1, FALSE, FALSE, {}, <<>>)

\* _parse_capitalisation_scheme
ParseCapitalisationScheme(capitalisation_scheme) ==
    IF capitalisation_scheme \in {"upper-camel", "lower-camel", "flat", "none"}
    THEN Ok(capitalisation_scheme)
    ELSE Raise("_InvalidCapitalisationSchemeException", <<>>)

\* lines 1710 to 1714 of _run: what the options of substitution and of
\* capitalisation are parsed to
ParseOptions(args) ==
    The({ IF ~space_substitute.ok THEN space_substitute
          ELSE IF ~metacharacter_substitutes.ok THEN metacharacter_substitutes
          ELSE IF ~scheme.ok THEN scheme
          ELSE Ok([space_substitute |-> space_substitute.val,
                   metacharacter_substitutes |-> metacharacter_substitutes.val,
                   capitalisation_scheme |-> scheme.val]) :
          space_substitute \in {ParseSpaceSubstitute(args.metacharacter_substitute)},
          metacharacter_substitutes \in
              {ParseMetacharacterSubstitutes(args.metacharacter_substitute)},
          scheme \in {ParseCapitalisationScheme(args.capitalisation_scheme)} })

---------------------------------------------------------------------------
(* Bounds *)

\* the longest list of chunks content() is applied to on its own
MaxChunks == 5

\* the chunks: empty, text, and text that is only whitespace
ChunkValues == {<<>>, <<"a">>, <<" ">>}

\* the most parts a value _value_of is called on is made of, and the most
\* values it is called on in a row
MaxParts == 3
MaxLabels == 2

DIV_A == <<"<", "d", "i", "v", ">", "a", "<", "/", "d", "i", "v", ">">>
DIV_EMPTY == <<"<", "d", "i", "v", ">", "<", "/", "d", "i", "v", ">">>
DIV_INLINE == <<"<", "d", "i", "v", ">", "b", "<", "i", ">", "c", "<", "/", "i", ">", "<", "/", "d", "i", "v", ">">>

SCRIPT_OPEN == <<"<", "s", "c", "r", "i", "p", "t", ">">>
SCRIPT_CLOSE == <<"<", "/", "s", "c", "r", "i", "p", "t", ">">>

\* the parts of those values: a block with text, an empty block, a block
\* whose text is split by inline markup, text outside a block, a "<", and
\* the end of a script element
LabelParts == {DIV_A, DIV_EMPTY, DIV_INLINE, <<"d">>, <<"<">>, SCRIPT_CLOSE}

\* the values made of parts
RECURSIVE LabelsOfParts(_)
LabelsOfParts(n) ==
    IF n = 0 THEN {<<>>}
    ELSE The({ shorter \cup {l \o q : l \in shorter, q \in LabelParts} :
               shorter \in {LabelsOfParts(n - 1)} })

\* the values _value_of is called on before the last one: markup that is
\* handled to its end, markup that ends in what opens a tag, and markup
\* that opens a script element
LeadingLabels == {DIV_A, <<"a", "<">>, <<"<", "b">>, SCRIPT_OPEN}

\* the values _value_of is called on, in order
ExtractorLabels ==
    {leading \o <<l>> : leading \in SeqsUpTo(LeadingLabels, MaxLabels - 1),
                        l \in LabelsOfParts(MaxParts)}

\* the longest label _replace_metacharacters is applied to on its own
MaxLabelLen == 3

\* the characters of those labels: a small letter, a capital letter, a
\* space, two metacharacters
LabelChars == {"a", "B", " ", "(", ":"}

Rule(c, by) == [to_replace |-> c, replacement |-> by]

\* the lists of rules: none, one per metacharacter, a replacement that is
\* itself a metacharacter (handled before and after it), two rules for one
\* metacharacter, a replacement that is a space
RuleLists ==
    { <<>>,
      <<Rule("(", <<" ">>), Rule(":", <<>>)>>,
      <<Rule("(", <<>>)>>,
      <<Rule(":", <<"-">>)>>,
      <<Rule("(", <<"_">>), Rule(":", <<>>)>>,
      <<Rule("(", <<":">>)>>,
      <<Rule(":", <<"(">>), Rule("(", <<"-">>)>>,
      <<Rule("(", <<"x">>), Rule("(", <<"y">>), Rule(":", <<"%", "3", "A">>)>> }

\* the seconds the clock may count (of one minute)
MaxClock == 1

SpaceSubstitutes == {None, Some(<<>>), Some(<<"_">>)}

CapitalisationSchemes == {"upper-camel", "lower-camel", "flat", "none"}

---------------------------------------------------------------------------
(* The diagrams and the options the script is run on                    *)
(*                                                                       *)
(* A diagram is made of a shape: an individual A (a group with the       *)
(* label a_label, at 0, 0, 100 wide and 50 high, and in it a cell with   *)
(* the label a_types), an individual B ("Oslo", a rico:Place, at 300,    *)
(* 0), possibly a third individual C (at c_x, 0), possibly a literal     *)
(* (a rounded cell at literal_at, which is 0, 100 unless said, after the *)
(* individuals or before them), an edge with a cell for its label, and   *)
(* possibly a second edge after it, in the root.                         *)
(* The edge lies in `depth' groups, each in the one before it.           *)
(***************************************************************************)

Id(c) == <<c>>
A_ID == <<"a">>
A_TYPES_ID == <<"a", "t">>
B_ID == <<"b">>
B_TYPES_ID == <<"b", "t">>
C_ID == <<"c">>
C_TYPES_ID == <<"c", "t">>
LITERAL_ID == <<"l">>
EDGE_ID == <<"e">>
EDGE_LABEL_ID == <<"e", "l">>
MISSING_ID == <<"z", "z">>
SECOND_EDGE_ID == <<"f">>
SECOND_EDGE_LABEL_ID == <<"f", "l">>

JANE_DOE == <<"J", "a", "n", "e", " ", "D", "o", "e">>
OSLO == <<"O", "s", "l", "o">>
BERGEN == <<"B", "e", "r", "g", "e", "n">>
RICO_PERSON == <<"r", "i", "c", "o", ":", "P", "e", "r", "s", "o", "n">>
RICO_PLACE == <<"r", "i", "c", "o", ":", "P", "l", "a", "c", "e">>
RICO_HAS_BIRTH_PLACE == <<"r", "i", "c", "o", ":", "h", "a", "s", "B", "i", "r", "t", "h", "P", "l", "a", "c", "e">>
STYLE_EDGE_LABEL == <<"e", "d", "g", "e", "L", "a", "b", "e", "l", ";", "h", "t", "m", "l", "=", "1">>
STYLE_ROUNDED == <<"r", "o", "u", "n", "d", "e", "d", "=", "1", ";", "w", "h", "i", "t", "e", "S", "p", "a", "c", "e", "=", "w", "r", "a", "p">>

Cell(id, parent, value, style, source, target, geometry) ==
    [tag |-> MX_CELL, id |-> id, parent |-> parent, value |-> value, style |-> style,
     source |-> source, target |-> target, geometry |-> geometry]

\* an mxGeometry with a position and a size
Box(x, y, width, height) ==
    [x |-> Some(x), y |-> Some(y), width |-> Some(width), height |-> Some(height),
     elements |-> <<>>]

\* an mxPoint
Point(as_attribute, xy) ==
    [tag |-> MX_POINT, as |-> Some(as_attribute), x |-> Some(xy[1]), y |-> Some(xy[2])]

\* the mxGeometry of an edge: its points, where it has them
Points(start, end) ==
    [x |-> None, y |-> None, width |-> None, height |-> None,
     elements |-> (IF start = None THEN <<>> ELSE <<Point(SOURCE_POINT, Get(start))>>)
                  \o (IF end = None THEN <<>> ELSE <<Point(TARGET_POINT, Get(end))>>)]

\* an mxPoint with no coordinates
BarePoint(as_attribute) ==
    [tag |-> MX_POINT, as |-> Some(as_attribute), x |-> None, y |-> None]

\* the mxGeometry of the edge of a shape: an end with no point has no
\* mxPoint, or one with no coordinates if the shape has bare points
PointsOf(shape) ==
    IF ~shape.bare_points THEN Points(shape.start, shape.end)
    ELSE [x |-> None, y |-> None, width |-> None, height |-> None,
          elements |-> <<IF shape.start = None THEN BarePoint(SOURCE_POINT)
                         ELSE Point(SOURCE_POINT, Get(shape.start)),
                         IF shape.end = None THEN BarePoint(TARGET_POINT)
                         ELSE Point(TARGET_POINT, Get(shape.end))>>]

\* the id of the k-th group around the edge, from the outermost
GroupId(k) == <<"g", Chr(48 + k)>>

\* the position of the k-th group around the edge, in its parent
GroupX(k) == IF k = 1 THEN 1000 ELSE IF k = 2 THEN 100 ELSE 10
GroupY(k) == IF k = 1 THEN 2000 ELSE IF k = 2 THEN 200 ELSE 20

Group(k) ==
    Cell(GroupId(k), Some(IF k = 1 THEN ROOT_ID ELSE GroupId(k - 1)), Some(<<>>),
         None, None, None, Some(Box(GroupX(k), GroupY(k), 500, 500)))

\* an individual: the group with its label and the cell of its types
IndividualCells(id, types_id, label, types, x) ==
    << Cell(id, Some(ROOT_ID), Some(label), None, None, None, Some(Box(x, 0, 100, 50))),
       Cell(types_id, Some(id), Some(types), None, None, None, Some(Box(0, 25, 100, 25))) >>

\* the cell of the literal of a shape, if it has one
LiteralCells(shape) ==
    IF shape.literal = None THEN <<>>
    ELSE << Cell(LITERAL_ID, Some(ROOT_ID), shape.literal, Some(STYLE_ROUNDED),
                 None, None,
                 Some(Box(shape.literal_at[1], shape.literal_at[2], 100, 50))) >>

\* the cells of the diagram of a shape
CellsOf(shape) ==
    << Cell(<<"0">>, None, None, None, None, None, None),
       Cell(ROOT_ID, Some(<<"0">>), None, None, None, None, None) >>
    \o [k \in 1..shape.depth |-> Group(k)]
    \o (IF shape.literal_first THEN LiteralCells(shape) ELSE <<>>)
    \o IndividualCells(A_ID, A_TYPES_ID, shape.a_label, shape.a_types, 0)
    \o (IF shape.c_x = None THEN <<>>
        ELSE IndividualCells(C_ID, C_TYPES_ID, BERGEN, RICO_PLACE, Get(shape.c_x)))
    \o IndividualCells(B_ID, B_TYPES_ID, OSLO, RICO_PLACE, 300)
    \o (IF shape.literal_first THEN <<>> ELSE LiteralCells(shape))
    \o (IF shape.edge_label = None THEN <<>>
        ELSE << Cell(shape.edge_id,
                     Some(IF shape.depth = 0 THEN ROOT_ID ELSE GroupId(shape.depth)),
                     Some(<<>>), None, shape.source, shape.target,
                     Some(PointsOf(shape))),
                Cell(EDGE_LABEL_ID, Some(shape.edge_id), shape.edge_label,
                     Some(STYLE_EDGE_LABEL), None, None, None) >>)
    \o (IF shape.second = None THEN <<>>
        ELSE << Cell(SECOND_EDGE_ID, Some(ROOT_ID), Some(<<>>), None,
                     Get(shape.second).source, Get(shape.second).target,
                     Some(Points(Get(shape.second).start, Get(shape.second).end))),
                Cell(SECOND_EDGE_LABEL_ID, Some(SECOND_EDGE_ID),
                     Some(Get(shape.second).edge_label),
                     Some(STYLE_EDGE_LABEL), None, None, None) >>)

\* Jane Doe, a person, has Oslo, a place, as her birth place: the edge is
\* locked to the cells of the types of the two
JaneDoe ==
    [a_label |-> JANE_DOE, a_types |-> RICO_PERSON, c_x |-> None, literal |-> None,
     edge_label |-> Some(RICO_HAS_BIRTH_PLACE), source |-> Some(A_TYPES_ID),
     target |-> Some(B_TYPES_ID), start |-> Some(<<100, 25>>), end |-> Some(<<300, 25>>),
     depth |-> 0, literal_first |-> FALSE, literal_at |-> <<0, 100>>,
     bare_points |-> FALSE, second |-> None, edge_id |-> EDGE_ID]

---------------------------------------------------------------------------
(* The parts of the state a specification does not use *)

\* no label is being read
NoLabel ==
    /\ chunks = <<>>
    /\ raw_data = <<>>
    /\ within_tag = FALSE
    /\ label_out = None
    /\ rawdata = <<>>
    /\ cdata_elem = None
    /\ labels = <<>>
    /\ returned = <<>>
    /\ extractor = "ready"

\* _replace_metacharacters is not called on its own
NoSanitize ==
    /\ san_in = None
    /\ san_out = None

\* individual_blocks is not called on its own
NoBlocks ==
    /\ blk_in = None
    /\ blk_out = None

\* nothing of a run has happened
NothingRun ==
    /\ options = None
    /\ draw_io_xml_tree = None
    /\ yielded = <<>>
    /\ assembled = <<>>
    /\ raised = None
    /\ serialised = None
    /\ stdout = None
    /\ exit_message = None

\* _start_or_end is not followed call by call
NoCalls ==
    /\ frames = <<>>
    /\ resolved = None

\* the script is not run
NoRun ==
    /\ NoBlocks
    /\ stdin = None
    /\ arguments = DefaultArguments
    /\ clock = 0
    /\ pc = "idle"
    /\ NothingRun
    /\ NoCalls
    /\ run = 1
    /\ previous = None

---------------------------------------------------------------------------
(* content() applied to a list of chunks *)

InitPrettify ==
    /\ chunks \in SeqsUpTo(ChunkValues, MaxChunks)
    /\ raw_data = <<>>
    /\ within_tag = FALSE
    /\ label_out = None
    /\ rawdata = <<>>
    /\ cdata_elem = None
    /\ labels = <<>>
    /\ returned = <<>>
    /\ extractor = "ready"
    /\ NoSanitize
    /\ NoRun

\* a call of content()
CallContent ==
    /\ IsNone(label_out)
    /\ label_out' = Some(Content(chunks, raw_data))
    /\ UNCHANGED <<chunks, raw_data, within_tag, rawdata, cdata_elem, labels, returned,
                   extractor>>
    /\ UNCHANGED <<sanVars, blockVars>>
    /\ UNCHANGED <<inputVars, clock, runVars, historyVars, callVars>>

NextPrettify == CallContent

SpecPrettify == InitPrettify /\ [][NextPrettify]_vars

---------------------------------------------------------------------------
(* _value_of called on one value after the other, on the one parser of a  *)
(* DrawIOXMLTree                                                          *)

InitExtractor ==
    /\ chunks = ClearedParser.chunks
    /\ raw_data = ClearedParser.raw_data
    /\ within_tag = ClearedParser.within_tag
    /\ rawdata = ClearedParser.rawdata
    /\ cdata_elem = ClearedParser.cdata_elem
    /\ label_out = None
    /\ labels \in ExtractorLabels
    /\ returned = <<>>
    /\ extractor = "ready"
    /\ NoSanitize
    /\ NoRun

\* the parser, as a record
Parser ==
    [chunks |-> chunks, raw_data |-> raw_data, within_tag |-> within_tag,
     rawdata |-> rawdata, cdata_elem |-> cdata_elem]

\* the parser becomes the record
Becomes(ps) ==
    /\ chunks' = ps.chunks
    /\ raw_data' = ps.raw_data
    /\ within_tag' = ps.within_tag
    /\ rawdata' = ps.rawdata
    /\ cdata_elem' = ps.cdata_elem

\* line 834: self.literal_node_html_parser.clear()
CallClear ==
    /\ extractor = "ready"
    /\ Len(returned) < Len(labels)
    /\ Becomes(Clear(Parser))
    /\ extractor' = "cleared"
    /\ UNCHANGED <<label_out, labels, returned, sanVars, blockVars>>
    /\ UNCHANGED <<inputVars, clock, runVars, historyVars, callVars>>

\* line 835: self.literal_node_html_parser.feed(value), value being the
\* stripped attribute (line 831)
CallFeed ==
    /\ extractor = "cleared"
    /\ Becomes(Feed(Parser, Strip(labels[Len(returned) + 1])))
    /\ extractor' = "fed"
    /\ UNCHANGED <<label_out, labels, returned, sanVars, blockVars>>
    /\ UNCHANGED <<inputVars, clock, runVars, historyVars, callVars>>

\* line 836: return self.literal_node_html_parser.content()
ReturnContent ==
    /\ extractor = "fed"
    /\ label_out' = Some(Content(chunks, raw_data))
    /\ returned' = Append(returned, Content(chunks, raw_data))
    /\ extractor' = "ready"
    /\ UNCHANGED <<chunks, raw_data, within_tag, rawdata, cdata_elem, labels, sanVars,
                   blockVars>>
    /\ UNCHANGED <<inputVars, clock, runVars, historyVars, callVars>>

NextExtractor == CallClear \/ CallFeed \/ ReturnContent

SpecExtractor == InitExtractor /\ [][NextExtractor]_vars


---------------------------------------------------------------------------
(* _replace_metacharacters applied to a label *)

InitSanitize ==
    /\ NoLabel
    /\ NoRun
    /\ san_in \in {Some([identifier |-> l, metacharacter_substitutes |-> r,
                         space_substitute |-> sp, capitalisation_scheme |-> c]) :
                      l \in SeqsUpTo(LabelChars, MaxLabelLen), r \in RuleLists,
                      sp \in SpaceSubstitutes, c \in CapitalisationSchemes}
    /\ san_out = None

\* a call of _replace_metacharacters
CallReplaceMetacharacters ==
    /\ IsSome(san_in)
    /\ IsNone(san_out)
    /\ san_out' = Some(ReplaceMetacharacters(
                           Get(san_in).identifier,
                           Get(san_in).metacharacter_substitutes,
                           Get(san_in).space_substitute,
                           Get(san_in).capitalisation_scheme))
    /\ UNCHANGED <<labelVars, san_in, blockVars>>
    /\ UNCHANGED <<inputVars, clock, runVars, historyVars, callVars>>

NextSanitize == CallReplaceMetacharacters

SpecSanitize == InitSanitize /\ [][NextSanitize]_vars

---------------------------------------------------------------------------
(* A run of the script: _main and _run                                   *)
(*                                                                       *)
(* pc is "start", then "parsed" (the options are parsed), "constructed"  *)
(* (the DrawIOXMLTree is made), "assembled" (individual_blocks has       *)
(* returned), "serialised" (serialise has returned) and "done" (the text *)
(* is printed); or "exit" once sys_exit is called.                       *)
(***************************************************************************)

\* The message of sys_exit for an exception raised in _run: the exception,
\* whether it is reported as unexpected (by the last handler of _main), and
\* the advice added to a NoSourceException (lines 1731 to 1746).
ExitMessage(exception, handled, strict_mode) ==
    [exc |-> exception.exc,
     msg |-> exception.msg,
     unexpected |-> exception.exc \notin (handled \cup {"ParseException"}),
     advice |-> IF exception.exc = "NoSourceException" /\ exception.exc \in handled
                THEN (IF strict_mode THEN "strict" ELSE "non-strict")
                ELSE "none"]

\* the exceptions the handlers of _run catch, for each of its try blocks
HANDLED_PARSING ==
    {"_MetacharacterSubstituteParseException", "_InvalidCapitalisationSchemeException"}
HANDLED_CONSTRUCTING == {"NothingToParseException", "NotInRiCException"}
HANDLED_ASSEMBLING ==
    {"NoSourceException", "NotInRiCException",
     "ArrowWithoutIndividualAsSourceException", "MetacharacterException"}
HANDLED_SERIALISING == {}

\* lines 1709 to 1718
ParseArguments ==
    /\ pc = "start"
    /\ \E parsed \in {ParseOptions(arguments)} :
           IF parsed.ok
           THEN /\ options' = Some(parsed.val)
                /\ pc' = "parsed"
                /\ UNCHANGED exit_message
           ELSE /\ exit_message' = Some(ExitMessage(parsed, HANDLED_PARSING,
                                                    arguments.strict_mode))
                /\ pc' = "exit"
                /\ UNCHANGED options
    /\ UNCHANGED <<draw_io_xml_tree, yielded, assembled, raised, serialised, stdout>>
    /\ UNCHANGED <<labelVars, sanVars, blockVars, inputVars, clock, historyVars, callVars>>

\* lines 1719 to 1724: DrawIOXMLTree(stdin.read())
Construct ==
    /\ pc = "parsed"
    /\ \E constructed \in {Extract(stdin)} :
           IF constructed.ok
           THEN /\ draw_io_xml_tree' = Some(constructed.val)
                /\ pc' = "constructed"
                /\ UNCHANGED exit_message
           ELSE /\ exit_message' = Some(ExitMessage(constructed, HANDLED_CONSTRUCTING,
                                                    arguments.strict_mode))
                /\ pc' = "exit"
                /\ UNCHANGED draw_io_xml_tree
    /\ UNCHANGED <<options, yielded, assembled, raised, serialised, stdout>>
    /\ UNCHANGED <<labelVars, sanVars, blockVars, inputVars, clock, historyVars, callVars>>

\* lines 1725 to 1751: individual_blocks on the iterator of the tree
Assemble ==
    /\ pc = "constructed"
    /\ \E iterator \in {IndividualsAndArrows(Get(stdin), Get(draw_io_xml_tree),
                              arguments.strict_mode, arguments.max_gap)} :
       \E left \in {IndividualBlocks(iterator, Get(options).metacharacter_substitutes,
                        Get(options).space_substitute,
                        Get(options).capitalisation_scheme)} :
           /\ yielded' = SubSeq(iterator, 1, left.consumed)
           /\ assembled' = left.blocks
           /\ raised' = left.raised
           /\ draw_io_xml_tree' =
                  Some([Get(draw_io_xml_tree) EXCEPT !.parser =
                           ParserAfter(Get(stdin), Get(draw_io_xml_tree), left.consumed,
                                       arguments.strict_mode, arguments.max_gap)])
           /\ IF left.raised = None
              THEN /\ pc' = "assembled"
                   /\ UNCHANGED exit_message
              ELSE /\ exit_message' = Some(ExitMessage(Get(left.raised),
                                          HANDLED_ASSEMBLING, arguments.strict_mode))
                   /\ pc' = "exit"
    /\ UNCHANGED <<options, serialised, stdout>>
    /\ UNCHANGED <<labelVars, sanVars, blockVars, inputVars, clock, historyVars, callVars>>

\* line 1752: serialise(blocks, serialisation_config)
SerialiseBlocksOfRun ==
    /\ pc = "assembled"
    /\ \E text \in {Serialise(assembled, SerialisationConfigOf(arguments), clock)} :
           IF text.ok
           THEN /\ serialised' = Some(text.val)
                /\ pc' = "serialised"
                /\ UNCHANGED exit_message
           ELSE /\ exit_message' = Some(ExitMessage(text, HANDLED_SERIALISING,
                                                    arguments.strict_mode))
                /\ pc' = "exit"
                /\ UNCHANGED serialised
    /\ UNCHANGED <<options, draw_io_xml_tree, yielded, assembled, raised, stdout>>
    /\ UNCHANGED <<labelVars, sanVars, blockVars, inputVars, clock, historyVars, callVars>>

\* What print(text.rstrip()) writes
Printed(text) == RStrip(text) \o <<"\n">>

\* Printing at once what is there of the blocks, whatever the run has done.
PrintEarly ==
    /\ pc \in {"start", "parsed", "constructed", "assembled", "serialised"}
    /\ stdout' = Some(Printed(IF serialised = None THEN <<>> ELSE Get(serialised)))
    /\ pc' = "done"
    /\ UNCHANGED <<options, draw_io_xml_tree, yielded, assembled, raised, serialised,
                   exit_message>>
    /\ UNCHANGED <<labelVars, sanVars, blockVars, inputVars, clock, historyVars, callVars>>

\* line 1752: print(... .rstrip())
PrintSerialised ==
    /\ pc = "serialised"
    /\ stdout' = Some(Printed(Get(serialised)))
    /\ pc' = "done"
    /\ UNCHANGED <<options, draw_io_xml_tree, yielded, assembled, raised, serialised,
                   exit_message>>
    /\ UNCHANGED <<labelVars, sanVars, blockVars, inputVars, clock, historyVars, callVars>>

\* a second of time passes
Tick ==
    /\ clock < MaxClock
    /\ clock' = clock + 1
    /\ UNCHANGED <<labelVars, sanVars, blockVars, inputVars, runVars, historyVars, callVars>>

\* what is kept of a run that has ended
Ended ==
    [stdin |-> stdin, draw_io_xml_tree |-> draw_io_xml_tree, yielded |-> yielded,
     assembled |-> assembled, stdout |-> stdout, exit_message |-> exit_message,
     clock |-> clock, swapped |-> <<>>]

\* the script is run again, on the same input with the same options
Rerun ==
    /\ pc \in {"done", "exit"}
    /\ run = 1
    /\ run' = 2
    /\ previous' = Some(Ended)
    /\ pc' = "start"
    /\ options' = None
    /\ draw_io_xml_tree' = None
    /\ yielded' = <<>>
    /\ assembled' = <<>>
    /\ raised' = None
    /\ serialised' = None
    /\ stdout' = None
    /\ exit_message' = None
    /\ UNCHANGED <<labelVars, sanVars, blockVars, inputVars, clock, callVars>>

\* the cells with the i-th and the j-th of them in the place of each other
SwapCells(cells, i, j) ==
    [k \in 1..Len(cells) |-> IF k = i THEN cells[j] ELSE IF k = j THEN cells[i] ELSE cells[k]]

\* the cells of the diagram that declare the types of an individual
IndividualCellsOf(t) == {t.individual_cells[k].cell : k \in 1..Len(t.individual_cells)}

\* the script is run again, with the same options, on the diagram with two
\* of its individual cells in the place of each other
RerunSwapped ==
    /\ pc \in {"done", "exit"}
    /\ run = 1
    /\ draw_io_xml_tree # None
    /\ \E i, j \in IndividualCellsOf(Get(draw_io_xml_tree)) :
          /\ i < j
          /\ stdin' = Some(SwapCells(Get(stdin), i, j))
          /\ previous' = Some([Ended EXCEPT !.swapped = <<i, j>>])
    /\ run' = 2
    /\ pc' = "start"
    /\ options' = None
    /\ draw_io_xml_tree' = None
    /\ yielded' = <<>>
    /\ assembled' = <<>>
    /\ raised' = None
    /\ serialised' = None
    /\ stdout' = None
    /\ exit_message' = None
    /\ UNCHANGED <<labelVars, sanVars, blockVars, arguments, clock, callVars>>

\* the steps of a run
NextRun ==
    \/ ParseArguments
    \/ Construct
    \/ Assemble
    \/ SerialiseBlocksOfRun
    \/ PrintSerialised

---------------------------------------------------------------------------
(* The script run once *)

N_N == <<"N", ".", "N", ".">>
JANE == <<"j", "a", "n", "e">>
JANE_UNFINISHED == <<"J", "a", "n", "e", " ", "<">>
JANE_IN_SCRIPT == <<"<", "s", "c", "r", "i", "p", "t", ">", "J", "a", "n", "e">>
QUOTED_ID == <<"i", "t", "'", "s">>
BOB == <<"B", "o", "b">>
RICO_BOGUS == <<"r", "i", "c", "o", ":", "B", "o", "g", "u", "s">>
RICO_PERSON_AGENT == <<"r", "i", "c", "o", ":", "P", "e", "r", "s", "o", "n", " ", "r", "i", "c", "o", ":", "A", "g", "e", "n", "t">>
RICO_LIKES == <<"r", "i", "c", "o", ":", "l", "i", "k", "e", "s">>
RICO_NAME == <<"r", "i", "c", "o", ":", "n", "a", "m", "e">>
LIKES == <<"l", "i", "k", "e", "s">>
USER_OBJECT == <<"U", "s", "e", "r", "O", "b", "j", "e", "c", "t">>
AN_IRI == <<"h", "t", "t", "p", ":", "/", "/", "e", "x", "a", "m", "p", "l", "e", ".", "o", "r", "g", "/", "o">>
EX == <<"e", "x">>

\* the shapes: Jane Doe's with another label (one of them ends in a "<",
\* which the parser keeps in its buffer, one opens a script element, which
\* the parser stays in) or other types for A, or with a literal and another
\* edge (one source is an id with an apostrophe), or with an apostrophe in
\* the id of the edge
RunShapes ==
    {[JaneDoe EXCEPT !.a_label = l, !.a_types = t] :
        l \in {JANE_DOE, N_N, JANE, JANE_UNFINISHED, JANE_IN_SCRIPT},
        t \in {RICO_PERSON, RICO_BOGUS, RICO_PERSON_AGENT}}
    \cup
    {[JaneDoe EXCEPT !.literal = Some(BOB), !.edge_label = e, !.source = src,
                     !.target = tgt] :
        e \in {Some(RICO_HAS_BIRTH_PLACE), Some(RICO_LIKES), Some(RICO_NAME),
               Some(LIKES), None},
        src \in {Some(A_TYPES_ID), Some(A_ID), None, Some(MISSING_ID), Some(LITERAL_ID),
                 Some(QUOTED_ID)},
        tgt \in {Some(B_TYPES_ID), None, Some(LITERAL_ID)}}
    \cup {[JaneDoe EXCEPT !.edge_id = QUOTED_ID]}

\* the diagrams: those of the shapes, no graph model, a graph model with
\* no cell, and two with an element that is not an mxCell as the last one,
\* after cells that are extracted and after a cell with an unknown type
RunDiagrams ==
    {Some(CellsOf(shape)) : shape \in RunShapes}
    \cup {None, Some(<<>>)}
    \cup {Some(Append(CellsOf(shape),
                      [Cell(<<"u">>, Some(ROOT_ID), None, None, None, None, None)
                          EXCEPT !.tag = USER_OBJECT])) :
             shape \in {JaneDoe, [JaneDoe EXCEPT !.a_types = RICO_BOGUS]}}

\* the values of the option -m: none, a rule for spaces, the two blanket
\* values, rules for a space and a full stop, a definition of something
\* that is no metacharacter, an empty definition
SubstituteLists ==
    { <<>>,
      << <<" ", "=">> >>,
      << REMOVE >>,
      << URL >>,
      << <<" ", "=", "_">>, <<".", "=">> >>,
      << <<"x", "=", "y">> >>,
      << <<>> >> }

RunArguments ==
    {[DefaultArguments EXCEPT !.metacharacter_substitute = m, !.preamble_disable = d,
                              !.strict_mode = st] :
        m \in SubstituteLists, d \in BOOLEAN, st \in BOOLEAN}
    \cup
    {[DefaultArguments EXCEPT !.metacharacter_substitute = << REMOVE >>,
                              !.ontology_iri = o, !.prefix = x, !.label_disable = l,
                              !.infer_types_disable = l,
                              !.capitalisation_scheme = c] :
        o \in {None, Some(AN_IRI)}, x \in {None, Some(EX)}, l \in BOOLEAN,
        c \in {"lower-camel", "bogus"}}

InitRun ==
    /\ NoLabel
    /\ NoSanitize
    /\ NoBlocks
    /\ stdin \in RunDiagrams
    /\ arguments \in RunArguments
    /\ clock = 0
    /\ pc = "start"
    /\ NothingRun
    /\ NoCalls
    /\ run = 1
    /\ previous = None

SpecRun == InitRun /\ [][NextRun]_vars

---------------------------------------------------------------------------
(* individual_blocks applied to an iterator *)

\* the longest iterator individual_blocks is applied to on its own
MaxItems == 3

LIKES_NOTHING == <<"l", "i", "k", "e", "s", "N", "o", "t", "h", "i", "n", "g">>
HAS_BIRTH_PLACE == <<"h", "a", "s", "B", "i", "r", "t", "h", "P", "l", "a", "c", "e">>
NAME == <<"n", "a", "m", "e">>
PERSON == <<"P", "e", "r", "s", "o", "n">>
PLACE == <<"P", "l", "a", "c", "e">>

\* an Individual and an Arrow as the iterator gives them
IndividualOf(identifier, ric_class) ==
    Ok([type |-> "Individual", identifier |-> identifier, ric_class |-> ric_class])
ArrowOf(identifier, source, target) ==
    Ok([type |-> "Arrow", identifier |-> identifier, source |-> source, target |-> target])

\* What the iterator may give: two individuals, arrows of an object
\* property and of a datatype property (with a target that is an identifier
\* as it is, and with one that holds metacharacters), arrows with a name that is in
\* neither vocabulary (one of them with a source that cannot be sanitized),
\* and an exception raised by the iterator itself.
ItemValues ==
    { IndividualOf(JANE_DOE, PERSON),
      IndividualOf(OSLO, PLACE),
      ArrowOf(HAS_BIRTH_PLACE, JANE_DOE, OSLO),
      ArrowOf(NAME, JANE_DOE, BOB),
      ArrowOf(HAS_BIRTH_PLACE, JANE_DOE, N_N),
      ArrowOf(NAME, JANE_DOE, N_N),
      ArrowOf(LIKES, JANE_DOE, OSLO),
      ArrowOf(LIKES_NOTHING, N_N, BOB),
      Raise("NoSourceException", <<SOURCE, RICO_LIKES, EDGE_ID>>) }

\* the iterators: an exception ends the iteration
Iterators ==
    {items \in SeqsUpTo(ItemValues, MaxItems) :
        \A i \in 1..(Len(items) - 1) : items[i].ok}

\* the options of substitution: those of the script run with no option -m
\* and with -m " =", and spaces removed with no rule for any metacharacter
BlockOptions ==
    {ParseOptions([DefaultArguments EXCEPT !.metacharacter_substitute = m]).val :
        m \in {<<>>, << <<" ", "=">> >>}}
    \cup {[space_substitute |-> Some(<<>>), metacharacter_substitutes |-> <<>>,
           capitalisation_scheme |-> DEFAULT_CAPITALISATION_SCHEME]}

InitBlocks ==
    /\ NoLabel
    /\ NoSanitize
    /\ stdin = None
    /\ arguments = DefaultArguments
    /\ clock = 0
    /\ pc = "idle"
    /\ NothingRun
    /\ NoCalls
    /\ run = 1
    /\ previous = None
    /\ blk_in \in {Some([individuals_and_arrows |-> items, options |-> o]) :
                      items \in Iterators, o \in BlockOptions}
    /\ blk_out = None

\* a call of individual_blocks
CallIndividualBlocks ==
    /\ IsSome(blk_in)
    /\ IsNone(blk_out)
    /\ blk_out' = Some(IndividualBlocks(Get(blk_in).individuals_and_arrows,
                                        Get(blk_in).options.metacharacter_substitutes,
                                        Get(blk_in).options.space_substitute,
                                        Get(blk_in).options.capitalisation_scheme))
    /\ UNCHANGED <<labelVars, sanVars, blk_in>>
    /\ UNCHANGED <<inputVars, clock, runVars, historyVars, callVars>>

NextBlocks == CallIndividualBlocks

SpecBlocks == InitBlocks /\ [][NextBlocks]_vars

---------------------------------------------------------------------------
(* The script run on arrows whose ends are to be found *)

\* the deepest nesting of groups around an edge
MaxDepth == 2

\* The points where an edge starts, relative to the group the edge lies in:
\* with the offset of the group taken off, a point inside A, points 10 and
\* 11 to the left and to the right of A, a point 10 below A that is 10
\* above the literal as well, a point inside B, and a point far from all.
StartPoints(depth) ==
    LET dx == IF depth = 0 THEN 0 ELSE GroupX(depth)
        dy == IF depth = 0 THEN 0 ELSE GroupY(depth)
    IN  {<<x - dx, y - dy>> : <<x, y>> \in {<<50, 25>>, <<0 - 11, 25>>, <<0 - 10, 25>>,
                                            <<110, 25>>, <<111, 25>>, <<50, 60>>,
                                            <<50, 90>>, <<350, 25>>, <<700, 700>>}}

\* the shapes: Jane Doe's with an edge that may lack the link of either
\* end, in groups, with or without a literal
ResolveShapes ==
    {[JaneDoe EXCEPT !.source = src, !.target = tgt, !.start = Some(p),
                     !.literal = l, !.depth = depth] :
        src \in {None, Some(A_TYPES_ID), Some(LITERAL_ID)},
        tgt \in {None, Some(B_TYPES_ID)},
        depth \in 0..MaxDepth,
        p \in UNION {StartPoints(n) : n \in 0..1},
        l \in {None, Some(BOB)}}

ResolveArguments ==
    {[DefaultArguments EXCEPT !.metacharacter_substitute = << REMOVE >>,
                              !.preamble_disable = TRUE,
                              !.strict_mode = st, !.max_gap = g] :
        st \in BOOLEAN, g \in {0, DEFAULT_MAX_GAP}}

InitResolve ==
    /\ NoLabel
    /\ NoSanitize
    /\ NoBlocks
    /\ stdin \in {Some(CellsOf(shape)) : shape \in ResolveShapes}
    /\ arguments \in ResolveArguments
    /\ clock = 0
    /\ pc = "start"
    /\ NothingRun
    /\ NoCalls
    /\ run = 1
    /\ previous = None

SpecResolve == InitResolve /\ [][NextRun]_vars

---------------------------------------------------------------------------
(* The script run twice on the same input, while time passes *)

RerunShapes ==
    { JaneDoe,
      [JaneDoe EXCEPT !.a_types = RICO_BOGUS],
      [JaneDoe EXCEPT !.literal = Some(BOB), !.edge_label = Some(RICO_NAME),
                      !.target = Some(LITERAL_ID)],
      [JaneDoe EXCEPT !.source = None, !.start = Some(<<700, 700>>)] }

RerunArguments ==
    {[DefaultArguments EXCEPT !.metacharacter_substitute = m, !.preamble_disable = d,
                              !.ontology_iri = o, !.infer_types_disable = i] :
        m \in {<<>>, << REMOVE >>}, d \in BOOLEAN, o \in {None, Some(AN_IRI), Some(<<>>)},
        i \in BOOLEAN}

InitRerun ==
    /\ NoLabel
    /\ NoSanitize
    /\ NoBlocks
    /\ stdin \in {Some(CellsOf(shape)) : shape \in RerunShapes}
    /\ arguments \in RerunArguments
    /\ clock = 0
    /\ pc = "start"
    /\ NothingRun
    /\ NoCalls
    /\ run = 1
    /\ previous = None

NextRerun ==
    \/ NextRun
    \/ Tick
    \/ Rerun

SpecRerun == InitRerun /\ [][NextRerun]_vars

---------------------------------------------------------------------------
(* The script run on diagrams whose arrow ends near several cells *)

\* Where the arrow may end: inside the widened boxes of Oslo and of a
\* literal below it, inside Oslo's box (and Bergen's), inside the box of the
\* literal below Oslo only, and far from every cell.
EndPoints == {<<350, 55>>, <<350, 30>>, <<350, 100>>, <<700, 700>>}

\* The shapes: Jane Doe's with a literal, below Jane Doe or below Oslo and 10
\* from it, before the individuals in the diagram or after them, possibly
\* with Bergen 5 to the right of Oslo's left border, and an edge locked to
\* Jane Doe with no link for its target.
ProximityShapes ==
    {[JaneDoe EXCEPT !.literal = Some(BOB), !.literal_first = first, !.literal_at = at,
                     !.c_x = c, !.edge_label = Some(label), !.target = None,
                     !.end = Some(p)] :
        first \in BOOLEAN, at \in {<<0, 100>>, <<300, 60>>}, c \in {None, Some(305)},
        label \in {RICO_HAS_BIRTH_PLACE, RICO_NAME}, p \in EndPoints}

ProximityArguments == ResolveArguments

InitProximity ==
    /\ NoLabel
    /\ NoSanitize
    /\ NoBlocks
    /\ stdin \in {Some(CellsOf(shape)) : shape \in ProximityShapes}
    /\ arguments \in ProximityArguments
    /\ clock = 0
    /\ pc = "start"
    /\ NothingRun
    /\ NoCalls
    /\ run = 1
    /\ previous = None

SpecProximity == InitProximity /\ [][NextRun]_vars

---------------------------------------------------------------------------
(* The script run on diagrams whose arrow lacks links, points or an individual *)

\* The shapes: Jane Doe's, where Jane Doe's group may have an empty label,
\* with a literal, and an edge whose ends are each locked to the cell of
\* the types of an individual, locked to the literal, or not locked, and
\* have a point with coordinates, a point without, or no point.
EndsShapes ==
    {[JaneDoe EXCEPT !.a_label = l, !.literal = Some(BOB), !.source = src,
                     !.target = tgt, !.start = p, !.end = q, !.bare_points = bare] :
        l \in {JANE_DOE, <<>>},
        src \in {Some(A_TYPES_ID), Some(LITERAL_ID), None},
        tgt \in {Some(B_TYPES_ID), Some(LITERAL_ID), None},
        p \in {None, Some(<<50, 25>>)},
        q \in {None, Some(<<350, 25>>), Some(<<700, 700>>)},
        bare \in BOOLEAN}

EndsArguments ==
    {[DefaultArguments EXCEPT !.metacharacter_substitute = << REMOVE >>,
                              !.preamble_disable = TRUE, !.strict_mode = st] :
        st \in BOOLEAN}

InitEnds ==
    /\ NoLabel
    /\ NoSanitize
    /\ NoBlocks
    /\ stdin \in {Some(CellsOf(shape)) : shape \in EndsShapes}
    /\ arguments \in EndsArguments
    /\ clock = 0
    /\ pc = "start"
    /\ NothingRun
    /\ NoCalls
    /\ run = 1
    /\ previous = None

SpecEnds == InitEnds /\ [][NextRun]_vars

---------------------------------------------------------------------------
(* The script run on diagrams with one or two edges, linked or not *)

FAR_AWAY == <<900, 900>>

\* the edge from A to B: linked or not at either end, starting at A or
\* far from every cell
FirstEdges ==
    {[JaneDoe EXCEPT !.source = src, !.target = tgt, !.start = Some(from)] :
        src \in {Some(A_TYPES_ID), None}, tgt \in {Some(B_TYPES_ID), None},
        from \in {<<100, 25>>, FAR_AWAY}}

\* the second edge, from B to A, labelled rico:name: linked or not at
\* either end, starting in B or far from every cell
SecondEdges ==
    {[edge_label |-> RICO_NAME, source |-> src, target |-> tgt,
      start |-> Some(from), end |-> Some(<<50, 25>>)] :
        src \in {Some(B_TYPES_ID), None}, tgt \in {Some(A_TYPES_ID), None},
        from \in {<<350, 25>>, FAR_AWAY}}

GeneratorShapes ==
    {[first EXCEPT !.second = s] :
        first \in FirstEdges, s \in {None} \cup {Some(e) : e \in SecondEdges}}

GeneratorArguments ==
    {[DefaultArguments EXCEPT !.metacharacter_substitute = << REMOVE >>,
                              !.preamble_disable = TRUE, !.strict_mode = st] :
        st \in BOOLEAN}

InitGenerator ==
    /\ NoLabel
    /\ NoSanitize
    /\ NoBlocks
    /\ stdin \in {Some(CellsOf(shape)) : shape \in GeneratorShapes}
    /\ arguments \in GeneratorArguments
    /\ clock = 0
    /\ pc = "start"
    /\ NothingRun
    /\ NoCalls
    /\ run = 1
    /\ previous = None

SpecGenerator == InitGenerator /\ [][NextRun]_vars

---------------------------------------------------------------------------
(* _start_or_end followed call by call, on an edge in groups whose parent  *)
(* attributes form a tree, point at a cell that is missing, or go round    *)

\* the calls within one another the interpreter allows
RecursionLimit == 5

\* the cells with the parent attribute of the cell with the id replaced
Reparented(cells, id, parent) ==
    [i \in 1..Len(cells) |->
        IF cells[i].id = id THEN [cells[i] EXCEPT !.parent = Some(parent)] ELSE cells[i]]

\* the edge and the groups around it
NestedIds(depth) == {EDGE_ID} \cup {GroupId(k) : k \in 1..depth}

\* The diagrams: Jane Doe's with the edge in 0 to MaxDepth groups, with or
\* without its points, and the same with the parent of the edge or of a
\* group replaced by the edge, a group or a cell that is missing
CallsDiagrams ==
    UNION {{CellsOf(shape)}
           \cup {Reparented(CellsOf(shape), id, parent) :
                    id \in NestedIds(shape.depth),
                    parent \in NestedIds(shape.depth) \cup {MISSING_ID}} :
        shape \in {[JaneDoe EXCEPT !.depth = depth, !.start = p, !.source = None,
                                   !.bare_points = bare] :
                      depth \in 0..MaxDepth, p \in {None, Some(<<5, 7>>)},
                      bare \in BOOLEAN}}

\* the place of the edge in the diagram
EdgePlace(cells) == CellWithId(cells, EDGE_ID).val

\* _arrow_start or _arrow_end is called on the edge
InitCalls ==
    /\ NoLabel
    /\ NoSanitize
    /\ NoBlocks
    /\ stdin \in {Some(cells) : cells \in CallsDiagrams}
    /\ arguments = DefaultArguments
    /\ clock = 0
    /\ pc = "parsed"
    /\ options = Some(ParseOptions(arguments).val)
    /\ draw_io_xml_tree = None
    /\ yielded = <<>>
    /\ assembled = <<>>
    /\ raised = None
    /\ serialised = None
    /\ stdout = None
    /\ exit_message = None
    /\ frames \in {<<Frame(EdgePlace(Get(stdin)), Some(a))>> :
                      a \in {SOURCE_POINT, TARGET_POINT}}
    /\ resolved = None
    /\ run = 1
    /\ previous = None

\* the innermost call of _start_or_end calls _start_or_end (lines 949 and
\* 950); a call that is one too many is a RecursionError, which no call
\* catches
CallStartOrEnd ==
    /\ frames # <<>>
    /\ LET frame == frames[Len(frames)]
       IN  /\ frame.as_attribute # None
           /\ frame.parent_coordinates = None
           /\ MakesCall(Get(stdin), Get(stdin)[frame.cell], Get(frame.as_attribute))
           /\ IF Len(frames) >= RecursionLimit
              THEN /\ frames' = <<>>
                   /\ resolved' = Some(Raise("RecursionError", <<>>))
              ELSE /\ frames' = Append(frames, Callee(Get(stdin), frame))
                   /\ UNCHANGED resolved
    /\ UNCHANGED <<labelVars, sanVars, blockVars, inputVars, clock, runVars, historyVars>>

\* the innermost call of _start_or_end returns or raises, to the call that
\* made it or, if it is the outermost, to _arrow_start or _arrow_end
ReturnStartOrEnd ==
    /\ frames # <<>>
    /\ LET frame == frames[Len(frames)]
           cells == Get(stdin)
       IN  /\ IF frame.as_attribute = None \/ frame.parent_coordinates # None
              THEN TRUE
              ELSE ~MakesCall(cells, cells[frame.cell], Get(frame.as_attribute))
           /\ IF Len(frames) = 1
              THEN /\ frames' = <<>>
                   /\ resolved' = Some(Returns(cells, frame))
              ELSE /\ frames' = [SubSeq(frames, 1, Len(frames) - 1) EXCEPT
                                    ![Len(frames) - 1].parent_coordinates =
                                        Some(Returns(cells, frame))]
                   /\ UNCHANGED resolved
    /\ UNCHANGED <<labelVars, sanVars, blockVars, inputVars, clock, runVars, historyVars>>

NextCalls ==
    \/ CallStartOrEnd
    \/ ReturnStartOrEnd

\* a call that can go on does: the interpreter runs the one thread there is
SpecCalls == InitCalls /\ [][NextCalls]_vars /\ WF_vars(NextCalls)

---------------------------------------------------------------------------
(* The values of the option -m parsed: the blanket values and definitions *)
(* in every order                                                        *)

\* the most values of the option -m
MaxDefinitions == 3

\* the values: the two blanket values, a definition for the space, one
\* for the full stop, one for the bracket
Definitions ==
    {URL, REMOVE, <<" ", "=", "_">>, <<".", "=", "x">>, <<"(", "=">>}

InitOptions ==
    /\ NoLabel
    /\ NoSanitize
    /\ NoBlocks
    /\ stdin = Some(CellsOf(JaneDoe))
    /\ arguments \in {[DefaultArguments EXCEPT !.metacharacter_substitute = m] :
                          m \in SeqsUpTo(Definitions, MaxDefinitions)}
    /\ clock = 0
    /\ pc = "start"
    /\ NothingRun
    /\ NoCalls
    /\ run = 1
    /\ previous = None

NextOptions == ParseArguments

SpecOptions == InitOptions /\ [][NextOptions]_vars

---------------------------------------------------------------------------
(* The script run on a diagram, and again with two individual cells swapped *)

\* The shapes: Jane Doe's with a third individual, Bergen, 5 or 25 to the
\* right of Jane Doe, and an edge to Oslo or to Bergen that may lack the
\* link for its source and then starts inside Jane Doe's box, or 2 or 12
\* to the right of it.
SwapShapes ==
    {[JaneDoe EXCEPT !.c_x = Some(x), !.source = src, !.target = Some(tgt),
                     !.start = Some(p)] :
        x \in {105, 125}, src \in {None, Some(A_TYPES_ID)},
        tgt \in {B_TYPES_ID, C_TYPES_ID},
        p \in {<<50, 25>>, <<102, 25>>, <<112, 25>>}}

SwapArguments ==
    {[DefaultArguments EXCEPT !.metacharacter_substitute = m, !.preamble_disable = TRUE] :
        m \in {<<>>, << REMOVE >>}}

InitSwap ==
    /\ NoLabel
    /\ NoSanitize
    /\ NoBlocks
    /\ stdin \in {Some(CellsOf(shape)) : shape \in SwapShapes}
    /\ arguments \in SwapArguments
    /\ clock = 0
    /\ pc = "start"
    /\ NothingRun
    /\ NoCalls
    /\ run = 1
    /\ previous = None

NextSwap ==
    \/ NextRun
    \/ RerunSwapped

SpecSwap == InitSwap /\ [][NextSwap]_vars

---------------------------------------------------------------------------
(* Properties of the text of a label *)

\* the chunk has text other than whitespace
HasText(c) == Strip(c) # <<>>

\* a maximal run of empty chunks starts at i
RunStartsAt(cs, i) ==
    /\ i \in 1..Len(cs)
    /\ cs[i] = <<>>
    /\ (i = 1 \/ cs[i - 1] # <<>>)

\* the last chunk of the run of empty chunks that starts at i
RunEnd(cs, i) ==
    CHOOSE j \in i..Len(cs) :
        /\ \A k \in i..j : cs[k] = <<>>
        /\ (j = Len(cs) \/ cs[j + 1] # <<>>)

\* the runs of two or more empty chunks (by their first index) that have a
\* chunk satisfying Around before them and one after them
BreakRuns(cs, Around(_)) ==
    {i \in 1..Len(cs) :
        /\ RunStartsAt(cs, i)
        /\ RunEnd(cs, i) >= i + 1
        /\ \E k \in 1..(i - 1) : Around(cs[k])
        /\ \E k \in (RunEnd(cs, i) + 1)..Len(cs) : Around(cs[k])}

NonEmpty(c) == c # <<>>

\* C5 as stated: the text has exactly one paragraph-break marker for each
\* run of two or more empty chunks lying between non-empty chunks (and so
\* none for a single empty chunk).
C5_OneMarkerPerRunBetweenNonEmpty ==
    IsSome(label_out) =>
        CountSub(Get(label_out), PARAGRAPH_BREAK)
            = Cardinality(BreakRuns(chunks, NonEmpty))

\* C5 amended: the text has exactly one paragraph-break marker for each run
\* of two or more empty chunks lying between chunks that hold text other
\* than whitespace, none for a single empty chunk, and is otherwise the
\* chunks concatenated and trimmed: a marker next to nothing but whitespace
\* chunks at either end is trimmed away with them.
C5_OneMarkerPerRunBetweenText ==
    IsSome(label_out) =>
        /\ CountSub(Get(label_out), PARAGRAPH_BREAK)
               = Cardinality(BreakRuns(chunks, HasText))
        /\ CountSub(Get(label_out), <<"\n">>)
               = 2 * Cardinality(BreakRuns(chunks, HasText))
        /\ Without(Get(label_out), "\n") = Strip(Concat(chunks))

\* C5 witness: a run of three empty chunks between two chunks of text has
\* produced exactly one marker.
C5_Witness ==
    /\ IsSome(label_out)
    /\ \E i \in BreakRuns(chunks, HasText) : RunEnd(chunks, i) >= i + 2
    /\ CountSub(Get(label_out), PARAGRAPH_BREAK) = 1

---------------------------------------------------------------------------
(* Properties of the sanitizer *)

\* some replacement of the rules, or the space substitute, holds c
Reintroduces(in, c) ==
    \/ \E i \in 1..Len(in.metacharacter_substitutes) :
           HasChar(in.metacharacter_substitutes[i].replacement, c)
    \/ IsSome(in.space_substitute) /\ HasChar(Get(in.space_substitute), c)

\* C4: for every metacharacter a label holds, _replace_metacharacters
\* either raises MetacharacterException or returns with a rule for that
\* metacharacter applied: it returns only if the metacharacter has a rule,
\* and then the result holds the metacharacter only where a replacement or
\* the space substitute put it.
C4_SubstitutedOrRaised ==
    IsSome(san_out) =>
        LET in == Get(san_in)
            out == Get(san_out)
        IN  \A i \in 1..Len(OWL_METACHARACTERS) :
                LET m == OWL_METACHARACTERS[i]
                IN  HasChar(in.identifier, m) =>
                        \/ ~out.ok /\ out.exc = "MetacharacterException"
                        \/ /\ out.ok
                           /\ RulesFor(in.metacharacter_substitutes, m) # {}
                           /\ ~Reintroduces(in, m) => ~HasChar(out.val, m)

\* C4 witness: a label with a metacharacter was sanitized, and the result
\* is free of the metacharacter.
C4_Witness ==
    /\ IsSome(san_out)
    /\ HasChar(Get(san_in).identifier, "(")
    /\ HasChar(Get(san_in).identifier, ":")
    /\ Get(san_out).ok
    /\ ~HasChar(Get(san_out).val, "(")
    /\ ~HasChar(Get(san_out).val, ":")

---------------------------------------------------------------------------
(* Properties of individual_blocks *)

\* the name is in neither vocabulary
UnknownRelation(name) ==
    name \notin RicObjectProperties /\ name \notin RicDatatypeProperties

\* the items individual_blocks has consumed that are arrows with a name in
\* neither vocabulary (by their indices)
UnknownArrows(in, out) ==
    {i \in 1..out.consumed :
        /\ in.individuals_and_arrows[i].ok
        /\ in.individuals_and_arrows[i].val.type = "Arrow"
        /\ UnknownRelation(in.individuals_and_arrows[i].val.identifier)}

\* C2: for every Arrow individual_blocks consumes whose name is in neither
\* the object properties nor the datatype properties, it raises
\* NotInRiCException (naming the arrow, which is the last item consumed), and
\* no block holds a fact under a name that is in neither vocabulary.
C2_UnknownRelationRaises ==
    IsSome(blk_out) =>
        LET in == Get(blk_in)
            out == Get(blk_out)
        IN  /\ \A i \in UnknownArrows(in, out) :
                   /\ out.raised = Some(Raise("NotInRiCException",
                                        <<in.individuals_and_arrows[i].val.identifier>>))
                   /\ i = out.consumed
            /\ \A b \in 1..Len(out.blocks) :
                   \A e \in 1..Len(out.blocks[b].entries) :
                       \/ out.blocks[b].entries[e].name = TYPES
                       \/ ~UnknownRelation(out.blocks[b].entries[e].name)

\* C2 witness: individual_blocks has recorded an individual and a fact of
\* it, and was then left by NotInRiCException at an arrow named "likes".
C2_Witness ==
    /\ IsSome(blk_out)
    /\ Get(blk_out).consumed = 3
    /\ Get(blk_in).individuals_and_arrows[3] = ArrowOf(LIKES, JANE_DOE, OSLO)
    /\ Get(blk_out).raised = Some(Raise("NotInRiCException", <<LIKES>>))
    /\ Len(Get(blk_out).blocks) = 1
    /\ Len(Get(blk_out).blocks[1].entries) = 2

---------------------------------------------------------------------------
(* Properties of a run of the script *)

\* the run has ended
RunEnded == pc \in {"done", "exit"}

\* the blocks of Jane Doe and of Oslo
JANE_DOE_ID == <<"J", "a", "n", "e", "D", "o", "e">>
JaneDoeBlocks ==
    << [key |-> <<JANE_DOE_ID, JANE_DOE>>,
        entries |-> << [name |-> TYPES, values |-> {PERSON}],
                       [name |-> HAS_BIRTH_PLACE, values |-> {OSLO}] >>],
       [key |-> <<OSLO, OSLO>>,
        entries |-> << [name |-> TYPES, values |-> {PLACE}] >>] >>

\* the text of the two blocks, as it is printed
JANE_DOE_TEXT == <<"I", "n", "d", "i", "v", "i", "d", "u", "a", "l", ":", " ", "J", "a", "n", "e", "D", "o", "e", "\n", " ", " ", "A", "n", "n", "o", "t", "a", "t", "i", "o", "n", "s", ":", "\n", " ", " ", " ", " ", "r", "d", "f", "s", ":", "l", "a", "b", "e", "l", " ", "\"", "J", "a", "n", "e", " ", "D", "o", "e", "\"", "\n", " ", " ", "T", "y", "p", "e", "s", ":", " ", "r", "i", "c", "o", ":", "P", "e", "r", "s", "o", "n", "\n", " ", " ", "F", "a", "c", "t", "s", ":", "\n", " ", " ", " ", " ", "r", "i", "c", "o", ":", "h", "a", "s", "B", "i", "r", "t", "h", "P", "l", "a", "c", "e", " ", "O", "s", "l", "o", "\n", "\n", "I", "n", "d", "i", "v", "i", "d", "u", "a", "l", ":", " ", "O", "s", "l", "o", "\n", " ", " ", "A", "n", "n", "o", "t", "a", "t", "i", "o", "n", "s", ":", "\n", " ", " ", " ", " ", "r", "d", "f", "s", ":", "l", "a", "b", "e", "l", " ", "\"", "O", "s", "l", "o", "\"", "\n", " ", " ", "T", "y", "p", "e", "s", ":", " ", "r", "i", "c", "o", ":", "P", "l", "a", "c", "e", "\n">>

\* the options of the script when none is given but -d (no preamble)
PreambleOff == [DefaultArguments EXCEPT !.preamble_disable = TRUE]

\* C1 as stated: on Jane Doe's diagram, with the default configuration (the
\* preamble off, the label annotations on and upper-camel capitalisation),
\* the run produces exactly the block of JaneDoe, with Types rico:Person and
\* Facts rico:hasBirthPlace Oslo, and the block of Oslo, with Types
\* rico:Place and no Facts.
C1_DefaultsGiveTwoBlocks ==
    (RunEnded /\ stdin = Some(CellsOf(JaneDoe)) /\ arguments = PreambleOff) =>
        /\ assembled = JaneDoeBlocks
        /\ stdout = Some(JANE_DOE_TEXT)

\* C1 amended: with the default configuration, the preamble off, and a
\* substitute for spaces configured that removes them (-m " =" or
\* -m remove), the run on Jane Doe's diagram produces exactly these two
\* blocks.
C1_SpacesRemovedGiveTwoBlocks ==
    \A m \in {<< <<" ", "=">> >>, << REMOVE >>} :
        (/\ RunEnded
         /\ stdin = Some(CellsOf(JaneDoe))
         /\ arguments = [PreambleOff EXCEPT !.metacharacter_substitute = m]) =>
            /\ assembled = JaneDoeBlocks
            /\ stdout = Some(JANE_DOE_TEXT)

\* C1 witness: the run on Jane Doe's diagram with -d -m " =" has printed the
\* two blocks.
C1_Witness ==
    /\ pc = "done"
    /\ stdin = Some(CellsOf(JaneDoe))
    /\ arguments = [PreambleOff EXCEPT !.metacharacter_substitute = << <<" ", "=">> >>]
    /\ Len(assembled) = 2
    /\ stdout = Some(JANE_DOE_TEXT)

\* C8: text is written to the output only once the options are parsed, the
\* tree is constructed, every end is resolved and every block assembled
\* with no exception, and serialise has returned, and it is the text
\* serialise returned; a run that ends by an exception, whichever, ends with
\* a message and has written nothing, and an exception no handler of _run
\* names is reported as unexpected.
C8_OutputOnlyAfterAllStages ==
    /\ stdout # None =>
           /\ pc = "done"
           /\ options # None
           /\ draw_io_xml_tree # None
           /\ Len(yielded) = ItemCount(Get(draw_io_xml_tree))
           /\ \A i \in 1..Len(yielded) : yielded[i].ok
           /\ raised = None
           /\ serialised # None
           /\ stdout = Some(Printed(Get(serialised)))
           /\ exit_message = None
    /\ pc = "exit" =>
           /\ exit_message # None
           /\ stdout = None
           /\ Get(exit_message).exc \in {"IndexError", "ValueError", "KeyError"}
                  => Get(exit_message).unexpected
    /\ pc = "done" => stdout # None

\* C8 witness: a run that had assembled blocks has ended by an exception
\* that is reported as unexpected, with nothing written.
C8_Witness ==
    /\ pc = "exit"
    /\ assembled # <<>>
    /\ Get(exit_message).unexpected
    /\ stdout = None

---------------------------------------------------------------------------
(* Properties of the ends of the arrows *)

\* the arrows of the tree the iterator was asked for (by their indices in
\* arrow_cells)
ConsumedArrows ==
    IF draw_io_xml_tree = None THEN {}
    ELSE {k \in 1..Len(Get(draw_io_xml_tree).arrow_cells) :
             Len(Get(draw_io_xml_tree).individual_cells) + k <= Len(yielded)}

\* what the iterator gave for the k-th arrow of the tree
ItemOfArrow(k) == yielded[Len(Get(draw_io_xml_tree).individual_cells) + k]

\* the cell of the k-th arrow of the tree
ArrowCell(k) == Get(stdin)[Get(draw_io_xml_tree).arrow_cells[k].cell]

\* the point lies in the box widened by the gap on every side
WithinExpandedBox(point, box, gap) ==
    /\ point[1] >= box[1] - gap
    /\ point[1] <= box[1] + box[3] + gap
    /\ point[2] >= box[2] - gap
    /\ point[2] <= box[2] + box[4] + gap

\* the individuals whose widened box holds the point
IndividualsAround(point, gap) ==
    LET cells == Get(draw_io_xml_tree).individual_cells
    IN  {cells[i].individual.identifier : i \in
            {j \in 1..Len(cells) : WithinExpandedBox(point, cells[j].dimensions, gap)}}

\* the literals whose widened box holds the point
LiteralsAround(point, gap) ==
    LET cells == Get(draw_io_xml_tree).literal_cells
    IN  {j \in 1..Len(cells) : WithinExpandedBox(point, cells[j].dimensions, gap)}

\* the exception for an end of the k-th arrow that cannot be determined
NoEnd(which, k) ==
    Raise("NoSourceException",
          <<which, Get(draw_io_xml_tree).arrow_cells[k].label, ArrowCell(k).id>>)

\* C3: in non-strict mode, an arrow with no link for its source whose start
\* lies in the box, widened by max_gap on every side, of exactly one
\* individual and of no literal has that individual as its source (if an
\* exception is raised for the arrow, it is for its target); if the start
\* lies in the widened box of no individual and no literal,
\* NoSourceException is raised for the source.
C3_SourceByProximity ==
    ~arguments.strict_mode =>
        \A k \in ConsumedArrows :
            LET start == Get(draw_io_xml_tree).arrow_cells[k].start
                individuals == IndividualsAround(Get(start), arguments.max_gap)
                literals == LiteralsAround(Get(start), arguments.max_gap)
                item == ItemOfArrow(k)
            IN  (ArrowCell(k).source = None /\ start # None) =>
                    /\ (Cardinality(individuals) = 1 /\ literals = {}) =>
                           IF item.ok THEN {item.val.source} = individuals
                           ELSE item = NoEnd(TARGET, k)
                    /\ (individuals = {} /\ literals = {}) => item = NoEnd(SOURCE, k)

\* C3 witness: an arrow with no link for its source that starts 10 to the
\* right of Jane Doe's box, and in no other, has Jane Doe as its source.
C3_Witness ==
    /\ ~arguments.strict_mode
    /\ 1 \in ConsumedArrows
    /\ ArrowCell(1).source = None
    /\ Get(draw_io_xml_tree).arrow_cells[1].start = Some(<<110, 25>>)
    /\ ItemOfArrow(1).ok
    /\ ItemOfArrow(1).val.source = JANE_DOE

\* the link is to a cell that declares the types of an individual
LinksIndividual(link) ==
    /\ link # None
    /\ \E i \in 1..Len(Get(draw_io_xml_tree).individual_cells) :
           Get(stdin)[Get(draw_io_xml_tree).individual_cells[i].cell].id = Get(link)

\* the link is to a cell that was taken for a literal
LinksLiteral(link) ==
    /\ link # None
    /\ \E i \in 1..Len(Get(draw_io_xml_tree).literal_cells) :
           Get(stdin)[Get(draw_io_xml_tree).literal_cells[i].cell].id = Get(link)

\* the link is to no cell of the diagram
LinksNothing(link) ==
    /\ link # None
    /\ \A i \in 1..Len(Get(stdin)) : Get(stdin)[i].id # Get(link)

OwnPoint(cell, as_attribute) ==
    LET elements == Get(cell.geometry).elements
        i == Min({j \in 1..Len(elements) : elements[j].as = Some(as_attribute)})
    IN  <<Get(elements[i].x), Get(elements[i].y)>>

\* The position of the cell with every ancestor's position added, up to the
\* cell whose parent is the root: what recursion over the parents gives.
RECURSIVE AbsolutePosition(_, _)
AbsolutePosition(cells, cell) ==
    LET own == OwnPosition(cell)
    IN  IF ~own.ok THEN own
        ELSE IF cell.parent = Some(ROOT_ID) THEN own
        ELSE LET p == ParentOf(cells, cell)
             IN  IF ~p.ok THEN p
                 ELSE LET up == AbsolutePosition(cells, cells[p.val])
                      IN  IF ~up.ok THEN up
                          ELSE Ok(<<own.val[1] + up.val[1], own.val[2] + up.val[2]>>)

\* the position of the group the cell lies in, with the positions of all
\* the groups around it added; the origin for a cell in no group
GroupOffset(cells, cell) ==
    IF cell.parent = Some(ROOT_ID) THEN <<0, 0>>
    ELSE AbsolutePosition(cells, cells[ParentOf(cells, cell).val]).val

\* C10: the start of an arrow, as it is used to find the source, is the
\* point of the edge with the positions of all the groups around the edge
\* added, up to the group that lies in the root.
C10_AncestorOffsetsAdded ==
    draw_io_xml_tree # None =>
        \A k \in 1..Len(Get(draw_io_xml_tree).arrow_cells) :
            LET start == Get(draw_io_xml_tree).arrow_cells[k].start
                own == OwnPoint(ArrowCell(k), SOURCE_POINT)
                offset == GroupOffset(Get(stdin), ArrowCell(k))
            IN  start # None =>
                    Get(start) = <<own[1] + offset[1], own[2] + offset[2]>>

---------------------------------------------------------------------------
(* Properties of two runs *)

\* the second run has ended
SecondRunEnded == run = 2 /\ RunEnded

\* an IRI of the ontology is given
IriGiven == arguments.ontology_iri # None /\ Get(arguments.ontology_iri) # <<>>

\* C6 as stated: the script run twice on the same diagram with the same
\* options writes the same text, whatever the options.
C6_SameOutputAlways ==
    SecondRunEnded => stdout = Get(previous).stdout

\* C6 amended: the script run twice on the same diagram with the same
\* options, with the preamble disabled or an IRI of the ontology given,
\* writes the same text, or exits with the same message.
C6_SameOutputUnlessGeneratedIri ==
    (SecondRunEnded /\ (arguments.preamble_disable \/ IriGiven)) =>
        /\ stdout = Get(previous).stdout
        /\ exit_message = Get(previous).exit_message

\* C6 witness: with the preamble enabled and an IRI given, the second run,
\* a second after the first ended, has written the text the first wrote.
C6_Witness ==
    /\ SecondRunEnded
    /\ ~arguments.preamble_disable
    /\ IriGiven
    /\ Get(previous).clock = 0
    /\ clock = 1
    /\ stdout # None
    /\ stdout = Get(previous).stdout

\* the second run has ended, on the diagram of the first with two of its
\* individual cells swapped
SwappedRunEnded == SecondRunEnded /\ Get(previous).swapped # <<>>

\* the individual of the first run declared by the cell
SwappedIndividual(cell) ==
    LET cells == Get(Get(previous).draw_io_xml_tree).individual_cells
    IN  cells[Min({i \in 1..Len(cells) : cells[i].cell = cell})]

\* the two boxes, each widened by the gap on every side, have no point in
\* common
Apart(a, b, gap) ==
    \/ a[1] + a[3] + gap < b[1] - gap
    \/ b[1] + b[3] + gap < a[1] - gap
    \/ a[2] + a[4] + gap < b[2] - gap
    \/ b[2] + b[4] + gap < a[2] - gap

\* no arrow the first run was given has one of the two as its source and
\* the other as its target
NotConnected(a, b) ==
    \A i \in 1..Len(Get(previous).yielded) :
        LET item == Get(previous).yielded[i]
        IN  (item.ok /\ item.val.type = "Arrow") =>
                {item.val.source, item.val.target} # {a, b}

\* the box of the individual, widened by the gap, has no point in common
\* with the widened box of any individual declared by another cell
ApartFromOthers(a, gap) ==
    LET cells == Get(Get(previous).draw_io_xml_tree).individual_cells
    IN  \A i \in 1..Len(cells) :
            cells[i].cell # a.cell => Apart(a.dimensions, cells[i].dimensions, gap)

\* the two individuals swapped have boxes that are gap apart and no arrow
\* between them
SwappedAre(gap) ==
    LET a == SwappedIndividual(Get(previous).swapped[1])
        b == SwappedIndividual(Get(previous).swapped[2])
    IN  /\ Apart(a.dimensions, b.dimensions, gap)
        /\ NotConnected(a.individual.identifier, b.individual.identifier)

\* the two individuals swapped have boxes that are gap apart from those of
\* all other individuals, and no arrow between them
SwappedAreAlone(gap) ==
    LET a == SwappedIndividual(Get(previous).swapped[1])
        b == SwappedIndividual(Get(previous).swapped[2])
    IN  /\ ApartFromOthers(a, gap)
        /\ ApartFromOthers(b, gap)
        /\ NotConnected(a.individual.identifier, b.individual.identifier)

\* the blocks, whatever their order
BlockSet(blocks) == {blocks[i] : i \in 1..Len(blocks)}

\* C7 as stated: with two individual cells swapped whose boxes do not
\* overlap and that no arrow connects, the script writes the same text.
C7_SwapKeepsOutput ==
    (SwappedRunEnded /\ SwappedAre(0)) => stdout = Get(previous).stdout

\* C7 amended: with two individual cells swapped whose boxes, widened by
\* max_gap, overlap the widened box of no other individual and that no
\* arrow connects, the script writes text if and only if it did before the
\* swap, and then the same blocks with the same types and facts, in a text
\* of the same length: the order of the blocks is the order of the
\* individuals in the diagram.
C7_SwapKeepsBlocks ==
    (SwappedRunEnded /\ SwappedAreAlone(arguments.max_gap)) =>
        /\ stdout = None <=> Get(previous).stdout = None
        /\ stdout # None =>
               /\ BlockSet(assembled) = BlockSet(Get(previous).assembled)
               /\ Len(assembled) = Len(Get(previous).assembled)
               /\ Len(Get(stdout)) = Len(Get(Get(previous).stdout))

\* C7 witness: the cells of Jane Doe and of Bergen were swapped, and the
\* script has written the same blocks as before, Bergen's first.
C7_Witness ==
    /\ SwappedRunEnded
    /\ SwappedAreAlone(arguments.max_gap)
    /\ stdout # None
    /\ stdout # Get(previous).stdout
    /\ assembled[1].key = <<BERGEN, BERGEN>>
    /\ Get(previous).assembled[1].key = <<JANE_DOE_ID, JANE_DOE>>
    /\ BlockSet(assembled) = BlockSet(Get(previous).assembled)

---------------------------------------------------------------------------
(* Properties of the search for a cell close to a point *)

\* the individual cells whose widened box holds the point (by their places
\* in the diagram)
IndividualCellsAround(point, gap) ==
    LET cells == Get(draw_io_xml_tree).individual_cells
    IN  {cells[i].cell : i \in
            {j \in 1..Len(cells) : WithinExpandedBox(point, cells[j].dimensions, gap)}}

\* the literal cells whose widened box holds the point (by their places in
\* the diagram)
LiteralCellsAround(point, gap) ==
    LET cells == Get(draw_io_xml_tree).literal_cells
    IN  {cells[i].cell : i \in
            {j \in 1..Len(cells) : WithinExpandedBox(point, cells[j].dimensions, gap)}}

\* the value of an end that is the classified cell at the place in the
\* diagram: the identifier of the individual, or the text of the literal
ValueOfClassified(place) ==
    LET cells == Get(draw_io_xml_tree).individual_cells
        declared == {i \in 1..Len(cells) : cells[i].cell = place}
    IN  IF declared # {} THEN cells[Min(declared)].individual.identifier
        ELSE LabelOf(Get(stdin)[place]).val

\* the arrows consumed, in non-strict mode, with no link for their target
\* and an end point
UnlinkedTargets ==
    IF arguments.strict_mode THEN {}
    ELSE {k \in ConsumedArrows :
             /\ ArrowCell(k).target = None
             /\ Get(draw_io_xml_tree).arrow_cells[k].end # None}

\* C11 as stated: the target of an arrow with no link for it, whose end lies
\* in the widened boxes of classified cells, is the one of these cells that
\* comes first in the diagram, individual cell or literal cell.
C11_FirstInDocumentOrder ==
    \A k \in UnlinkedTargets :
        LET end == Get(Get(draw_io_xml_tree).arrow_cells[k].end)
            around == IndividualCellsAround(end, arguments.max_gap)
                          \cup LiteralCellsAround(end, arguments.max_gap)
        IN  around # {} =>
                /\ ItemOfArrow(k).ok
                /\ ItemOfArrow(k).val.target = ValueOfClassified(Min(around))

\* C11 amended: the target of such an arrow is the first in the diagram of
\* the individual cells whose widened box holds the end, if there is one,
\* and else the first in the diagram of the literal cells whose widened box
\* holds it.
C11_IndividualsBeforeLiterals ==
    \A k \in UnlinkedTargets :
        LET end == Get(Get(draw_io_xml_tree).arrow_cells[k].end)
            individuals == IndividualCellsAround(end, arguments.max_gap)
            literals == LiteralCellsAround(end, arguments.max_gap)
        IN  /\ individuals # {} =>
                   /\ ItemOfArrow(k).ok
                   /\ ItemOfArrow(k).val.target = ValueOfClassified(Min(individuals))
            /\ (individuals = {} /\ literals # {}) =>
                   /\ ItemOfArrow(k).ok
                   /\ ItemOfArrow(k).val.target = ValueOfClassified(Min(literals))

\* C11 witness: the arrow ends in the widened boxes of a literal, which
\* comes first in the diagram, and of Oslo, and Oslo is its target.
C11_Witness ==
    /\ 1 \in UnlinkedTargets
    /\ Get(draw_io_xml_tree).arrow_cells[1].end = Some(<<350, 55>>)
    /\ LiteralCellsAround(<<350, 55>>, arguments.max_gap) # {}
    /\ IndividualCellsAround(<<350, 55>>, arguments.max_gap) # {}
    /\ Min(LiteralCellsAround(<<350, 55>>, arguments.max_gap))
           < Min(IndividualCellsAround(<<350, 55>>, arguments.max_gap))
    /\ ItemOfArrow(1).ok
    /\ ItemOfArrow(1).val.target = OSLO

---------------------------------------------------------------------------
(* Properties of the values of the ends of the arrows *)

\* the identifiers of the individuals the tree holds
EstablishedIdentifiers ==
    {Get(draw_io_xml_tree).individual_cells[i].individual.identifier :
        i \in 1..Len(Get(draw_io_xml_tree).individual_cells)}

\* the cell of the diagram an end is locked to
LinkedCell(link) ==
    Get(stdin)[Min({i \in 1..Len(Get(stdin)) : Get(stdin)[i].id = Get(link)})]

\* the value derived from a cell: the label of its parent when its own
\* label starts with "rico:", and else its own label
DerivedValue(cell) ==
    IF StartsWith(LabelOf(cell).val, RICO)
    THEN LabelOf(Get(stdin)[ParentOf(Get(stdin), cell).val]).val
    ELSE LabelOf(cell).val

\* the exception for the k-th arrow when its source is no individual
SourceNotIndividual(k) ==
    Raise("ArrowWithoutIndividualAsSourceException",
          <<ArrowCell(k).id, Get(draw_io_xml_tree).arrow_cells[k].label>>)

\* C12: for every arrow locked to a source cell, if the value derived from
\* that cell is the identifier of no individual of the tree,
\* ArrowWithoutIndividualAsSourceException is raised for the arrow; if it
\* is one, and the arrow is locked to a target cell, nothing is raised and
\* the target is the value derived from the target cell, individual or not.
C12_SourceMustBeIndividual ==
    \A k \in ConsumedArrows :
        ArrowCell(k).source # None =>
            LET source == DerivedValue(LinkedCell(ArrowCell(k).source))
            IN  /\ source \notin EstablishedIdentifiers =>
                       ItemOfArrow(k) = SourceNotIndividual(k)
                /\ (source \in EstablishedIdentifiers /\ ArrowCell(k).target # None) =>
                       /\ ItemOfArrow(k).ok
                       /\ ItemOfArrow(k).val.source = source
                       /\ ItemOfArrow(k).val.target
                              = DerivedValue(LinkedCell(ArrowCell(k).target))

---------------------------------------------------------------------------
(* Properties of the points of the edge *)

\* the edge of the diagram
Edge == LinkedCell(Some(EDGE_ID))

\* the edge has an mxPoint for the end
HasPoint(as_attribute) ==
    \E i \in 1..Len(Get(Edge.geometry).elements) :
        Get(Edge.geometry).elements[i].as = Some(as_attribute)

\* the edge has an mxPoint with coordinates for the end
HasCoordinates(as_attribute) ==
    \E i \in 1..Len(Get(Edge.geometry).elements) :
        /\ Get(Edge.geometry).elements[i].as = Some(as_attribute)
        /\ Get(Edge.geometry).elements[i].x # None
        /\ Get(Edge.geometry).elements[i].y # None

\* the constructor of DrawIOXMLTree has returned, or was left by an exception
ConstructionEnded == pc \notin {"start", "parsed"}

\* the constructor of DrawIOXMLTree was left by a ParseException
ConstructionFailed ==
    /\ pc = "exit"
    /\ draw_io_xml_tree = None
    /\ Get(exit_message).exc = "ParseException"

\* the tree is constructed, and the point it holds for an end of the edge
\* is missing exactly if the edge has no coordinates for it
ConstructedWithPoints ==
    /\ draw_io_xml_tree # None
    /\ Len(Get(draw_io_xml_tree).arrow_cells) = 1
    /\ Get(draw_io_xml_tree).arrow_cells[1].start = None
           <=> ~HasCoordinates(SOURCE_POINT)
    /\ Get(draw_io_xml_tree).arrow_cells[1].end = None
           <=> ~HasCoordinates(TARGET_POINT)

\* C13 as stated: if each end of the edge is locked or has coordinates,
\* the construction succeeds and records the point of an end without
\* coordinates as missing; if an end that is not locked has no coordinates,
\* the construction is left by a ParseException.
C13_LockedEndNeedsNoPoint ==
    ConstructionEnded =>
        IF /\ Edge.source # None \/ HasCoordinates(SOURCE_POINT)
           /\ Edge.target # None \/ HasCoordinates(TARGET_POINT)
        THEN ConstructedWithPoints
        ELSE ConstructionFailed

\* C13 amended: if each end of the edge has an mxPoint, and is locked or
\* has coordinates in it, the construction succeeds and records the point
\* of an end without coordinates as missing; if an end has no mxPoint, or
\* is not locked and has no coordinates, the construction is left by a
\* ParseException.
C13_LockedEndNeedsNoCoordinates ==
    ConstructionEnded =>
        IF /\ HasPoint(SOURCE_POINT)
           /\ HasPoint(TARGET_POINT)
           /\ Edge.source # None \/ HasCoordinates(SOURCE_POINT)
           /\ Edge.target # None \/ HasCoordinates(TARGET_POINT)
        THEN ConstructedWithPoints
        ELSE ConstructionFailed

\* C13 witness: the edge is locked at both ends and has points without
\* coordinates; the tree holds no point for either end, and the run has
\* printed the blocks.
C13_Witness ==
    /\ pc = "done"
    /\ Edge.source # None
    /\ Edge.target # None
    /\ HasPoint(SOURCE_POINT)
    /\ ~HasCoordinates(SOURCE_POINT)
    /\ ~HasCoordinates(TARGET_POINT)
    /\ Get(draw_io_xml_tree).arrow_cells[1].start = None
    /\ Get(draw_io_xml_tree).arrow_cells[1].end = None

---------------------------------------------------------------------------
(* Properties of the exception for a target that cannot be identified *)

\* the exception of the class NoTargetException for the k-th arrow
NoTarget(k) ==
    Raise("NoTargetException",
          <<TARGET, Get(draw_io_xml_tree).arrow_cells[k].label, ArrowCell(k).id>>)

\* the target of the k-th arrow cannot be identified: it has no link, and
\* the mode is strict, or the arrow has no end point, or no individual and
\* no literal has the end point in its widened box
UnidentifiedTarget(k) ==
    LET end == Get(draw_io_xml_tree).arrow_cells[k].end
    IN  /\ ArrowCell(k).target = None
        /\ \/ arguments.strict_mode
           \/ end = None
           \/ /\ IndividualsAround(Get(end), arguments.max_gap) = {}
              /\ LiteralsAround(Get(end), arguments.max_gap) = {}

\* C14: for an arrow whose source is linked to an individual and whose
\* target cannot be identified, NoTargetException is raised, and
\* NoSourceException is raised only for an arrow whose source is not linked.
C14_NoTargetRaised ==
    \A k \in ConsumedArrows :
        /\ (LinksIndividual(ArrowCell(k).source) /\ UnidentifiedTarget(k)) =>
               ItemOfArrow(k) = NoTarget(k)
        /\ (~ItemOfArrow(k).ok /\ ItemOfArrow(k).exc = "NoSourceException") =>
               ArrowCell(k).source = None

---------------------------------------------------------------------------
(* Properties of the inference of the type of a literal *)

\* serialise has been called on the blocks of the run
SerialisationEnded ==
    /\ pc \in {"serialised", "done", "exit"}
    /\ draw_io_xml_tree # None
    /\ yielded # <<>>
    /\ raised = None

\* the values of the datatype properties in the blocks of the run
DatatypeValues ==
    UNION {assembled[b].entries[e].values :
              <<b, e>> \in {<<i, j>> \in (1..Len(assembled)) \X (1..4) :
                               /\ j <= Len(assembled[i].entries)
                               /\ assembled[i].entries[j].name \in RicDatatypeProperties}}

\* the four forms in which a literal may be written
FormsOf(literal) ==
    {Quoted(literal) \o XSD_INTEGER, Quoted(literal) \o XSD_DATE,
     Quoted(literal) \o XSD_DATE_TIME, Quoted(literal)}

\* every block of the run has types
EveryBlockHasTypes ==
    \A b \in 1..Len(assembled) : EntryIndex(assembled[b].entries, TYPES) # 0

\* C15: when the blocks of the run have been serialised with the inference
\* of types enabled, _infer_type gives one of the four forms for every value
\* of a datatype property, whatever its length, and does not fail: if every
\* block has types there is a text.
C15_InferTypeNeverFails ==
    (SerialisationEnded /\ ~arguments.infer_types_disable) =>
        /\ \A literal \in DatatypeValues :
               /\ InferType(literal).ok
               /\ InferType(literal).val \in FormsOf(literal)
        /\ EveryBlockHasTypes => serialised # None

---------------------------------------------------------------------------
(* individual_blocks and serialise applied to an iterator in every order *)

\* the longest iterator whose blocks are serialised
MaxOrdered == 3

AGENT == <<"A", "g", "e", "n", "t">>

\* What the iterator may give: Jane Doe with two types, Oslo, three names of
\* Jane Doe (in the order of the code points "Jane Doe", "UserObject",
\* "likesNothing") and her place of birth.
OrderedItems ==
    { IndividualOf(JANE_DOE, PERSON),
      IndividualOf(JANE_DOE, AGENT),
      IndividualOf(OSLO, PLACE),
      ArrowOf(NAME, JANE_DOE, LIKES_NOTHING),
      ArrowOf(NAME, JANE_DOE, USER_OBJECT),
      ArrowOf(NAME, JANE_DOE, JANE_DOE),
      ArrowOf(HAS_BIRTH_PLACE, JANE_DOE, OSLO) }

\* the iterators: every value at most once, in every order
OrderedIterators ==
    {items \in SeqsUpTo(OrderedItems, MaxOrdered) :
        \A i, j \in 1..Len(items) : items[i] = items[j] => i = j}

OrderedArguments ==
    {[DefaultArguments EXCEPT !.metacharacter_substitute = << REMOVE >>,
                              !.preamble_disable = TRUE,
                              !.infer_types_disable = i, !.label_disable = l] :
        i \in BOOLEAN, l \in BOOLEAN}

\* an entry of a block
EntryOf(name, values) == [name |-> name, values |-> values]

\* the entries of the types of a block made by hand: none, no class, one
\* class, two classes
HandMadeTypes ==
    {<<>>, <<EntryOf(TYPES, {})>>, <<EntryOf(TYPES, {PERSON})>>,
     <<EntryOf(TYPES, {PERSON, AGENT})>>}

\* the entries of the facts of a block made by hand: none, properties
\* without a value, with one value, with several, in either order
HandMadeFacts ==
    {<<>>,
     <<EntryOf(NAME, {})>>,
     <<EntryOf(NAME, {}), EntryOf(HAS_BIRTH_PLACE, {})>>,
     <<EntryOf(NAME, {}), EntryOf(HAS_BIRTH_PLACE, {OSLO})>>,
     <<EntryOf(NAME, {LIKES_NOTHING, USER_OBJECT, JANE_DOE})>>,
     <<EntryOf(HAS_BIRTH_PLACE, {OSLO}), EntryOf(NAME, {USER_OBJECT, JANE_DOE})>>}

\* the blocks made by hand: the types before or after the facts
HandMadeBlocks ==
    {[key |-> key, entries |-> entries] :
        key \in {<<JANE_DOE_ID, JANE_DOE>>, <<OSLO, OSLO>>},
        entries \in {t \o f : t \in HandMadeTypes, f \in HandMadeFacts}
                    \cup {f \o t : t \in HandMadeTypes, f \in HandMadeFacts}}

\* the mappings made by hand that serialise is called on: up to two
\* blocks of different individuals
HandMadeMappings ==
    {blocks \in SeqsUpTo(HandMadeBlocks, 2) :
        \A i, j \in 1..Len(blocks) : blocks[i].key = blocks[j].key => i = j}

\* serialise is called on the blocks individual_blocks makes of an
\* iterator, or on a mapping made by hand
InitOrdered ==
    /\ NoLabel
    /\ NoSanitize
    /\ stdin = None
    /\ arguments \in OrderedArguments
    /\ clock = 0
    /\ pc = "idle"
    /\ NothingRun
    /\ NoCalls
    /\ run = 1
    /\ previous = None
    /\ \/ /\ blk_in \in {Some([individuals_and_arrows |-> items,
                                options |-> ParseOptions(a).val]) :
                            items \in OrderedIterators,
                            a \in {[DefaultArguments EXCEPT
                                       !.metacharacter_substitute = << REMOVE >>]}}
          /\ blk_out = None
       \/ /\ blk_in = None
          /\ blk_out \in {Some([blocks |-> blocks, raised |-> None, consumed |-> 0]) :
                             blocks \in HandMadeMappings}

\* a call of serialise on the blocks individual_blocks has returned, or on
\* the mapping made by hand
CallSerialise ==
    /\ IsSome(blk_out)
    /\ Get(blk_out).raised = None
    /\ serialised = None
    /\ raised = None
    /\ \E text \in {Serialise(Get(blk_out).blocks, SerialisationConfigOf(arguments),
                               clock)} :
           IF text.ok
           THEN /\ serialised' = Some(text.val)
                /\ UNCHANGED raised
           ELSE /\ raised' = Some(text)
                /\ UNCHANGED serialised
    /\ UNCHANGED <<pc, options, draw_io_xml_tree, yielded, assembled, stdout,
                   exit_message>>
    /\ UNCHANGED <<labelVars, sanVars, blockVars, inputVars, clock, historyVars, callVars>>

NextOrdered ==
    \/ CallIndividualBlocks
    \/ CallSerialise

SpecOrdered == InitOrdered /\ [][NextOrdered]_vars

---------------------------------------------------------------------------
(* Properties of the order of the blocks, the types and the facts *)

\* the strings of a set in ascending order of their code points
Ascending(values) ==
    CHOOSE s \in [1..Cardinality(values) -> values] :
        \A i, j \in 1..Cardinality(values) : i < j => LessStr(s[i], s[j])

\* the label of the individual a value of the iterator is about
LabelOfItem(item) ==
    IF item.val.type = "Individual" THEN item.val.identifier ELSE item.val.source

\* the place in the iterator of the first value about the individual
FirstAbout(items, label) ==
    Min({k \in 1..Len(items) : LabelOfItem(items[k]) = label})

\* the blocks are those of the individuals the iterator is about, in the
\* order in which the iterator first comes to them
InInsertionOrder(items, blocks) ==
    /\ {blocks[b].key[2] : b \in 1..Len(blocks)}
           = {LabelOfItem(items[k]) : k \in 1..Len(items)}
    /\ \A b, c \in 1..Len(blocks) :
           b < c => FirstAbout(items, blocks[b].key[2]) < FirstAbout(items, blocks[c].key[2])

\* the pairs of a property and a value of the facts: the properties as they
\* come, the values of each in ascending order
PairsOf(facts) ==
    Concat([f \in 1..Len(facts) |->
               [v \in 1..Cardinality(facts[f].values) |->
                   <<facts[f].name, Ascending(facts[f].values)[v]>>]])

\* the lines of the text of a block, the empty line that ends it included
LinesOf(block, config) ==
    LET margin == Spaces(config.indentation)
        types == Ascending(block.entries[EntryIndex(block.entries, TYPES)].values)
        pairs == PairsOf(WithoutTypes(block.entries))
        n == Len(pairs)
    IN  << INDIVIDUAL \o PrefixString(config.prefix) \o block.key[1] >>
        \o (IF config.include_label
            THEN << margin \o ANNOTATIONS,
                    margin \o margin \o RDFS_LABEL \o Quoted(block.key[2]) >>
            ELSE <<>>)
        \o << margin \o TYPES_LINE
                \o Join(<<",", " ">>, [t \in 1..Len(types) |-> RICO \o types[t]]) >>
        \o (IF n = 0 THEN <<>>
            ELSE << margin \o FACTS_LINE >>
                 \o [k \in 1..n |->
                        margin \o margin
                        \o Fact(pairs[k][1],
                                FormattedValue(pairs[k][1], pairs[k][2],
                                               config.infer_type_of_literals,
                                               config.prefix).val)
                        \o (IF k < n THEN <<",">> ELSE <<>>)])
        \o << <<>> >>

\* the text of lines, each ended by a newline
TextOf(lines) == Concat([k \in 1..Len(lines) |-> lines[k] \o <<"\n">>])

\* the iterator with its values in another order
Reordered(items, order) == [k \in 1..Len(items) |-> items[order[k]]]

\* the orders of n values
Orders(n) == {order \in [1..n -> 1..n] : \A i, j \in 1..n : order[i] = order[j] => i = j}

\* the names of the entries of a block, as they come
NamesOf(block) == [e \in 1..Len(block.entries) |-> block.entries[e].name]

\* the blocks individual_blocks makes of the iterator with the options of
\* the call
BlocksOfOrder(items) ==
    IndividualBlocks(items, Get(blk_in).options.metacharacter_substitutes,
                     Get(blk_in).options.space_substitute,
                     Get(blk_in).options.capitalisation_scheme).blocks

\* C16: the text serialise gives is the texts of the blocks one after the
\* other, in the order of the mapping (for blocks made by individual_blocks,
\* the order in which the iterator first came to their individuals); the
\* Types line of a block has its classes in ascending order, and the Facts
\* have the properties in the order of the block, the values of each in
\* ascending order; in whatever order a set of classes or of values gives
\* its members, sorted() makes the ascending list of it, so that the text
\* is that of the sets; and with the values of the iterator in any other
\* order, a block of the same individual whose entries have the same names
\* in the same order has the same text.
C16_BlocksInOrderSortedWithin ==
    serialised # None =>
        LET items == Get(blk_in).individuals_and_arrows
            blocks == Get(blk_out).blocks
            config == SerialisationConfigOf(arguments)
        IN  /\ blk_in # None => InInsertionOrder(items, blocks)
            /\ Get(serialised)
                   = Concat([b \in 1..Len(blocks) |-> TextOf(LinesOf(blocks[b], config))])
            /\ \A b \in 1..Len(blocks) :
                   \A e \in 1..Len(blocks[b].entries) :
                       \A l \in Iterations(blocks[b].entries[e].values) :
                           SortedList(l) = Ascending(blocks[b].entries[e].values)
            /\ blk_in # None =>
                   \A order \in Orders(Len(items)) :
                       LET others == BlocksOfOrder(Reordered(items, order))
                       IN  \A b \in 1..Len(blocks), c \in 1..Len(others) :
                               (/\ blocks[b].key = others[c].key
                                /\ NamesOf(blocks[b]) = NamesOf(others[c])) =>
                                   SerialiseBlock(blocks[b].key[1], blocks[b].key[2],
                                                  blocks[b].entries, config)
                                       = SerialiseBlock(others[c].key[1], others[c].key[2],
                                                        others[c].entries, config)

\* C16 witness: the iterator gave Oslo, then Jane Doe as a Person, then as
\* an Agent; Oslo's block comes first in the text, and Jane Doe's has the
\* types Agent, Person.
C16_Witness ==
    /\ serialised # None
    /\ blk_in # None
    /\ Get(blk_in).individuals_and_arrows
           = << IndividualOf(OSLO, PLACE), IndividualOf(JANE_DOE, PERSON),
                IndividualOf(JANE_DOE, AGENT) >>
    /\ arguments.label_disable
    /\ Get(serialised)
           = INDIVIDUAL \o OSLO \o <<"\n">> \o Spaces(2) \o TYPES_LINE \o RICO \o PLACE
             \o <<"\n", "\n">>
             \o INDIVIDUAL \o <<"J", "a", "n", "e", "D", "o", "e">> \o <<"\n">>
             \o Spaces(2) \o TYPES_LINE \o RICO \o AGENT \o <<",", " ">> \o RICO \o PERSON
             \o <<"\n", "\n">>

---------------------------------------------------------------------------
(* Properties of a metacharacter with no rule on the command line *)

\* the list of the option -m holds one of the blanket values
HasBlanketValue(definitions) ==
    \E i \in 1..Len(definitions) : definitions[i] \in {REMOVE, URL}

\* the list of the option -m holds a definition for the character
HasDefinitionFor(definitions, c) ==
    \E i \in 1..Len(definitions) : definitions[i] # <<>> /\ definitions[i][1] = c

\* the metacharacters of the label for which the option -m says nothing
Unconfigured(definitions, label) ==
    {OWL_METACHARACTERS[i] : i \in {j \in 1..Len(OWL_METACHARACTERS) :
        /\ HasChar(label, OWL_METACHARACTERS[j])
        /\ ~HasDefinitionFor(definitions, OWL_METACHARACTERS[j])}}

\* individual_blocks has been called in the run, and has returned or raised
AssemblyEnded ==
    /\ pc \in {"assembled", "serialised", "done", "exit"}
    /\ draw_io_xml_tree # None
    /\ yielded # <<>>

\* C17: when the list of the option -m holds neither 'remove' nor 'url' and
\* the first individual of the run has a label without spaces that holds a
\* metacharacter the list has no definition for, the run raises
\* MetacharacterException naming such a character, and makes no block.
C17_UnconfiguredMetacharacterFails ==
    (AssemblyEnded /\ ~HasBlanketValue(arguments.metacharacter_substitute)) =>
        LET first == yielded[1]
        IN  (/\ first.ok
             /\ first.val.type = "Individual"
             /\ ~HasChar(first.val.identifier, " ")
             /\ Unconfigured(arguments.metacharacter_substitute,
                             first.val.identifier) # {}) =>
                /\ raised # None
                /\ Get(raised).exc = "MetacharacterException"
                /\ \E c \in Unconfigured(arguments.metacharacter_substitute,
                                          first.val.identifier) :
                       Get(raised).msg[1] = <<c>>
                /\ assembled = <<>>

---------------------------------------------------------------------------
(* Properties of the spaces of a label *)

\* the exception for a label with spaces when no substitute is configured
UntreatedSpaces(label) == Raise("MetacharacterException", <<<<" ">>, label>>)

\* C18: _replace_metacharacters called with no space substitute on a label
\* that holds a space raises MetacharacterException naming the space and
\* the label, whatever the capitalisation scheme and the rules are; called
\* on a label that holds no space, it never raises that exception, not even
\* when a rule puts a space into the identifier.
C18_SpaceNeedsSubstitute ==
    IsSome(san_out) =>
        LET in == Get(san_in)
            out == Get(san_out)
        IN  /\ (HasChar(in.identifier, " ") /\ in.space_substitute = None) =>
                   out = UntreatedSpaces(in.identifier)
            /\ ~HasChar(in.identifier, " ") =>
                   ~(/\ ~out.ok
                     /\ out.exc = "MetacharacterException"
                     /\ out.msg[1] = <<" ">>)

\* C18 witness: with no space substitute, the lower-camel scheme and rules
\* for both metacharacters, a label with a space and a metacharacter has
\* raised the exception for its spaces.
C18_Witness ==
    /\ IsSome(san_out)
    /\ Get(san_in).space_substitute = None
    /\ Get(san_in).metacharacter_substitutes = <<Rule("(", <<" ">>), Rule(":", <<>>)>>
    /\ Get(san_in).capitalisation_scheme = "lower-camel"
    /\ Get(san_in).identifier = <<"a", " ", "(">>
    /\ Get(san_out) = UntreatedSpaces(<<"a", " ", "(">>)

---------------------------------------------------------------------------
(* Properties of the capitalisation of the words of a label *)

\* the word with its first letter, if it has one, in upper case or in
\* lower case
FirstLetterUpper(word) == IF word = <<>> THEN word ELSE UpperFirst(word)
FirstLetterLower(word) == IF word = <<>> THEN word ELSE LowerFirst(word)

\* the i-th word of a label as the scheme writes it
WordInScheme(scheme, i, word) ==
    CASE scheme = "upper-camel" -> FirstLetterUpper(word)
      [] scheme = "lower-camel" ->
            IF i = 1 THEN FirstLetterLower(word) ELSE FirstLetterUpper(word)
      [] scheme = "flat" -> FirstLetterLower(word)
      [] scheme = "none" -> word

\* the words of the label, each as the scheme writes it, joined by the
\* substitute
WordsJoined(label, substitute, scheme) ==
    LET words == Split(label)
    IN  Join(substitute, [i \in 1..Len(words) |-> WordInScheme(scheme, i, words[i])])

\* C19: for a label with spaces and a space substitute, the identifier is
\* the words of the label joined by the substitute, every word with its
\* first letter in upper case (upper-camel), the first word with its first
\* letter in lower case and the others in upper case (lower-camel), every
\* word with its first letter in lower case (flat) or every word as it is
\* (none); for a label without spaces it is the label, with its first
\* letter in lower case if the scheme is lower-camel or flat; in both cases
\* with the rules of the metacharacters then applied.
C19_WordsJoinedInScheme ==
    IsSome(san_out) =>
        LET in == Get(san_in)
            out == Get(san_out)
        IN  /\ (HasChar(in.identifier, " ") /\ in.space_substitute # None) =>
                   out = ReplaceFrom(1, WordsJoined(in.identifier,
                                                    Get(in.space_substitute),
                                                    in.capitalisation_scheme),
                                     in.metacharacter_substitutes)
            /\ ~HasChar(in.identifier, " ") =>
                   out = ReplaceFrom(1, IF in.capitalisation_scheme
                                              \in {"lower-camel", "flat"}
                                        THEN FirstLetterLower(in.identifier)
                                        ELSE in.identifier,
                                     in.metacharacter_substitutes)

---------------------------------------------------------------------------
(* The script run on labels that declare types *)

RICO_PERSON_BOGUS == RICO_PERSON \o <<" ">> \o RICO_BOGUS
RICO_BOGUS_PERSON == RICO_BOGUS \o <<" ">> \o RICO_PERSON
BOGUS == <<"B", "o", "g", "u", "s">>

\* The shapes: Jane Doe's, with a label or an empty label for the group of
\* A, and in it a cell with one class, two classes, a name that is no
\* class, alone, before or after a class, or the bare prefix; the edge has
\* an object property or a datatype property, from A or from B.
TypesShapes ==
    {[JaneDoe EXCEPT !.a_label = l, !.a_types = t, !.edge_label = e, !.source = src] :
        l \in {JANE_DOE, <<>>},
        t \in {RICO_PERSON, RICO_PERSON_AGENT, RICO_BOGUS, RICO_PERSON_BOGUS,
               RICO_BOGUS_PERSON, RICO},
        e \in {Some(RICO_HAS_BIRTH_PLACE), Some(RICO_NAME)},
        src \in {Some(A_TYPES_ID), Some(B_TYPES_ID)}}

InitTypes ==
    /\ NoLabel
    /\ NoSanitize
    /\ NoBlocks
    /\ stdin \in {Some(CellsOf(shape)) : shape \in TypesShapes}
    /\ arguments \in EndsArguments
    /\ clock = 0
    /\ pc = "start"
    /\ NothingRun
    /\ NoCalls
    /\ run = 1
    /\ previous = None

SpecTypes == InitTypes /\ [][NextRun]_vars

---------------------------------------------------------------------------
(* Properties of the individuals of the tree *)

\* the cells of the diagram whose label begins with "rico:" (by their places)
PrefixedCells ==
    {i \in 1..Len(Get(stdin)) :
        /\ LabelOf(Get(stdin)[i]).ok
        /\ StartsWith(LabelOf(Get(stdin)[i]).val, RICO)}

\* the label of the parent of the cell at the place, None if the cell has
\* no parent or the parent has no label
ParentLabel(i) ==
    LET parent == ParentOf(Get(stdin), Get(stdin)[i])
    IN  IF parent.ok /\ LabelOf(Get(stdin)[parent.val]).ok
        THEN Some(LabelOf(Get(stdin)[parent.val]).val)
        ELSE None

\* the prefixed cells whose parent has a label that is not empty
LabelledPrefixedCells ==
    {i \in PrefixedCells : ParentLabel(i) \notin {None, Some(<<>>)}}

\* the names the label of the cell at the place gives, split on "rico:"
TokensOf(i) ==
    LET parts == Tail(SplitOn(LabelOf(Get(stdin)[i]).val, RICO))
    IN  [t \in 1..Len(parts) |-> Strip(parts[t])]

\* the places in the label of the names that are no class
InvalidTokens(i) == {t \in 1..Len(TokensOf(i)) : TokensOf(i)[t] \notin RicClasses}

\* the construction was left by NotInRiCException naming the token
FailedNaming(token) ==
    /\ pc = "exit"
    /\ draw_io_xml_tree = None
    /\ Get(exit_message).exc = "NotInRiCException"
    /\ Get(exit_message).msg = <<token>>

\* the individuals of the tree that the cell at the place declares
IndividualsOfCell(i) ==
    SelectSeq(Get(draw_io_xml_tree).individual_cells, LAMBDA c : c.cell = i)

\* every individual of the tree has a class of the vocabulary and, as its
\* identifier, the label of the parent of its cell, which is not empty
IndividualsAreValid ==
    \A k \in 1..Len(Get(draw_io_xml_tree).individual_cells) :
        LET c == Get(draw_io_xml_tree).individual_cells[k]
        IN  /\ c.individual.ric_class \in RicClasses
            /\ c.individual.identifier # <<>>
            /\ Some(c.individual.identifier) = ParentLabel(c.cell)

\* the cells of the set are validated: the first of them with a name that
\* is no class makes the construction fail naming the first such name, and
\* if the construction succeeds each of them has given one individual for
\* each of its names
Validated(declaring) ==
    /\ draw_io_xml_tree # None =>
           /\ IndividualsAreValid
           /\ \A i \in declaring :
                  /\ InvalidTokens(i) = {}
                  /\ Len(IndividualsOfCell(i)) = Len(TokensOf(i))
                  /\ \A t \in 1..Len(TokensOf(i)) :
                         IndividualsOfCell(i)[t].individual
                             = [identifier |-> Get(ParentLabel(i)),
                                ric_class |-> TokensOf(i)[t]]
    /\ (\E i \in declaring : InvalidTokens(i) # {}) =>
           LET first == Min({i \in declaring : InvalidTokens(i) # {}})
           IN  FailedNaming(TokensOf(first)[Min(InvalidTokens(first))])

\* C20 as stated: once the constructor is left, every label that begins
\* with "rico:" has been validated: the individuals of the tree are valid,
\* a name that is no class has made the construction fail with
\* NotInRiCException naming it, and a label of n classes has given n
\* individuals with the label of the parent as their identifier.
C20_EveryPrefixedLabelValidated ==
    ConstructionEnded => Validated(PrefixedCells)

\* C20 amended: once the constructor is left, every label that begins with
\* "rico:" in a cell whose parent has a label that is not empty has been
\* validated in that way; and the other labels that begin with "rico:"
\* (the label of an edge, a cell in a group with an empty label) have given
\* no individual, whatever their names are.
C20_PrefixedLabelOfLabelledParentValidated ==
    ConstructionEnded =>
        /\ Validated(LabelledPrefixedCells)
        /\ draw_io_xml_tree # None =>
               \A i \in PrefixedCells \ LabelledPrefixedCells :
                   IndividualsOfCell(i) = <<>>

\* C20 witness: the cell of A declares Person and Agent under the label
\* Jane Doe; the tree has the two individuals of Jane Doe, followed by
\* Oslo's, and the run has printed its blocks.
C20_Witness ==
    /\ pc = "done"
    /\ \E i \in LabelledPrefixedCells :
           /\ TokensOf(i) = <<PERSON, AGENT>>
           /\ Len(IndividualsOfCell(i)) = 2
           /\ IndividualsOfCell(i)[1].individual
                  = [identifier |-> JANE_DOE, ric_class |-> PERSON]
           /\ IndividualsOfCell(i)[2].individual
                  = [identifier |-> JANE_DOE, ric_class |-> AGENT]
    /\ Len(Get(draw_io_xml_tree).individual_cells) = 3

---------------------------------------------------------------------------
(* Properties of the facts individual_blocks records *)

\* the identifier made of a label with the options of the call
SanitizedWith(opts, label) ==
    ReplaceMetacharacters(label, opts.metacharacter_substitutes,
                          opts.space_substitute, opts.capitalisation_scheme)

\* the Arrows individual_blocks has consumed and recorded (by their places
\* in the iterator): all it has consumed but the one it raised at
RecordedArrows(in, out) ==
    {i \in 1..out.consumed :
        /\ in.individuals_and_arrows[i].ok
        /\ in.individuals_and_arrows[i].val.type = "Arrow"
        /\ (out.raised = None \/ i < out.consumed)}

\* the value recorded for an arrow: its target sanitized if it is an
\* object property, its target as it is if it is a datatype property
RecordedValue(opts, arrow) ==
    IF arrow.identifier \in RicObjectProperties
    THEN SanitizedWith(opts, arrow.target).val
    ELSE arrow.target

\* the key of the block of the source of an arrow
SourceKey(opts, arrow) == <<SanitizedWith(opts, arrow.source).val, arrow.source>>

\* C21: once individual_blocks is left, for every block and every property
\* of it the set of the values is exactly that of the values recorded for
\* the Arrows consumed with that source and that property, whose key is the
\* sanitized source with the source: the sanitized target for an object
\* property, the raw target for a datatype property, each value once
\* however often it was added; and every Arrow recorded has such a block
\* and such a property.
C21_TargetSanitizedForObjectProperty ==
    IsSome(blk_out) =>
        LET in == Get(blk_in)
            out == Get(blk_out)
            arrows == RecordedArrows(in, out)
            ArrowAt(i) == in.individuals_and_arrows[i].val
        IN  /\ \A i \in arrows :
                   \E b \in 1..Len(out.blocks) :
                       /\ out.blocks[b].key = SourceKey(in.options, ArrowAt(i))
                       /\ EntryIndex(out.blocks[b].entries, ArrowAt(i).identifier) # 0
            /\ \A b \in 1..Len(out.blocks) :
                   \A e \in 1..Len(out.blocks[b].entries) :
                       out.blocks[b].entries[e].name # TYPES =>
                           out.blocks[b].entries[e].values
                               = {RecordedValue(in.options, ArrowAt(i)) :
                                     i \in {j \in arrows :
                                        /\ SourceKey(in.options, ArrowAt(j))
                                               = out.blocks[b].key
                                        /\ ArrowAt(j).identifier
                                               = out.blocks[b].entries[e].name}}

\* C21 witness: from Jane Doe's place of birth N.N. and her name N.N., given
\* twice, individual_blocks has made one block with the key JaneDoe, the
\* place of birth NN and the name N.N., each once.
C21_Witness ==
    /\ IsSome(blk_out)
    /\ Get(blk_in).individuals_and_arrows
           = << ArrowOf(HAS_BIRTH_PLACE, JANE_DOE, N_N), ArrowOf(NAME, JANE_DOE, N_N),
                ArrowOf(NAME, JANE_DOE, N_N) >>
    /\ Get(blk_out).raised = None
    /\ Get(blk_out).blocks
           = << [key |-> <<JANE_DOE_ID, JANE_DOE>>,
                 entries |-> << [name |-> HAS_BIRTH_PLACE, values |-> {<<"N", "N">>}],
                                [name |-> NAME, values |-> {N_N}] >>] >>

---------------------------------------------------------------------------
(* Properties of the failures of the construction of the tree *)

\* the constructor of DrawIOXMLTree was called and has ended
ConstructorEnded == IsSome(options) /\ pc \notin {"start", "parsed"}

\* the constructor was left by the exception named, and no tree was bound
ConstructorRaised(exception) ==
    /\ pc = "exit"
    /\ draw_io_xml_tree = None
    /\ Get(exit_message).exc = exception

\* the graph model is absent or has no children
NothingToParse == IsNone(stdin) \/ Get(stdin) = <<>>

\* the children of the graph model that are not mxCell elements
UnexpectedChildren ==
    IF NothingToParse THEN {}
    ELSE {i \in 1..Len(Get(stdin)) : Get(stdin)[i].tag # MX_CELL}

\* the children before child i are extracted without an exception
ExtractedBefore(i) ==
    ExtractFrom(SubSeq(Get(stdin), 1, i - 1), NoCells, 1).ok

\* the constructor was left by the ParseException that names the tag of
\* child i
NamesUnexpected(i) ==
    /\ ConstructorRaised("ParseException")
    /\ Get(exit_message).msg = <<Get(stdin)[i].tag>>

\* C22 as stated: the construction fails with NothingToParseException
\* exactly when the graph model is absent or has no children; otherwise, if
\* any child of the graph model is not an mxCell, it fails with the
\* ParseException that names the unexpected tag and no tree is available.
C22_Original ==
    ConstructorEnded =>
        /\ ConstructorRaised("NothingToParseException") <=> NothingToParse
        /\ \A i \in UnexpectedChildren : NamesUnexpected(i)

\* C22, amended: the construction fails with NothingToParseException exactly
\* when the graph model is absent or has no children; otherwise, if a child
\* of the graph model is not an mxCell and the children before it are
\* extracted without an exception, it fails with the ParseException that
\* names the unexpected tag; whenever a child is not an mxCell the
\* construction fails and no tree is available.
C22_UnexpectedChildAfterExtractedCells ==
    ConstructorEnded =>
        /\ ConstructorRaised("NothingToParseException") <=> NothingToParse
        /\ \A i \in UnexpectedChildren :
               /\ pc = "exit" /\ draw_io_xml_tree = None
               /\ ExtractedBefore(i) => NamesUnexpected(i)

\* a diagram of extracted cells followed by a UserObject element was
\* refused with the ParseException naming UserObject
C22_Witness ==
    /\ stdin = Some(Append(CellsOf(JaneDoe),
                           [Cell(<<"u">>, Some(ROOT_ID), None, None, None, None, None)
                               EXCEPT !.tag = USER_OBJECT]))
    /\ pc = "exit"
    /\ draw_io_xml_tree = None
    /\ Get(exit_message).exc = "ParseException"
    /\ Get(exit_message).msg = <<USER_OBJECT>>

---------------------------------------------------------------------------
(* Properties of the text _value_of returns for markup *)

\* the blocks of the parts that hold text
TextBlocks == {DIV_A, DIV_INLINE}

\* the value is three blocks in a row, the middle one empty and the only
\* empty one: a single line break
SingleLineBreak(l) == \E first \in TextBlocks, third \in TextBlocks : l = first \o DIV_EMPTY \o third

\* the value has two empty blocks in a row: two line breaks or more
SeveralLineBreaks(l) == Contains(l, DIV_EMPTY \o DIV_EMPTY)

\* C23 as stated: for a value of three blocks of which the middle one is
\* empty, the text returned has no paragraph break (for the blocks of "a",
\* it is "aa"); a text returned has a paragraph break only if its value
\* has two or more empty blocks in a row.
C23_SingleLineBreakIgnored ==
    \A k \in 1..Len(returned) :
        /\ SingleLineBreak(labels[k]) => ~Contains(returned[k], PARAGRAPH_BREAK)
        /\ labels[k] = DIV_A \o DIV_EMPTY \o DIV_A => returned[k] = <<"a", "a">>
        /\ Contains(returned[k], PARAGRAPH_BREAK) => SeveralLineBreaks(labels[k])

\* the text a new parser returns for the value
TextOfNew(l) ==
    The({Content(ps.chunks, ps.raw_data) : ps \in {Feed(ClearedParser, Strip(l))}})

\* C24 as stated: when _value_of feeds a value, the chunks, the raw data
\* and the flag of the parser are those of a new parser, and the text
\* returned for a value is the text a new parser returns for it, whatever
\* the values extracted before.
C24_TextDependsOnlyOnLabel ==
    /\ extractor = "cleared" =>
           /\ chunks = ClearedParser.chunks
           /\ raw_data = ClearedParser.raw_data
           /\ within_tag = ClearedParser.within_tag
    /\ \A k \in 1..Len(returned) : returned[k] = TextOfNew(labels[k])

---------------------------------------------------------------------------
(* Properties of the options of substitution *)

\* the values of the option -m
GivenDefinitions == arguments.metacharacter_substitute

\* "url" is among the values
UrlGiven == \E i \in 1..Len(GivenDefinitions) : GivenDefinitions[i] = URL

\* the characters that have a definition of their own among the values
Defined == {GivenDefinitions[i][1] : i \in {j \in 1..Len(GivenDefinitions) :
                                              GivenDefinitions[j] \notin {URL, REMOVE}}}

\* the values with the i-th of them moved to position j
Moved(definitions, i, j) ==
    LET others == [k \in 1..(Len(definitions) - 1) |->
                      IF k < i THEN definitions[k] ELSE definitions[k + 1]]
    IN  SubSeq(others, 1, j - 1) \o <<definitions[i]>> \o SubSeq(others, j, Len(others))

\* the values with one of the blanket values at another position
BlanketMoved ==
    {Moved(GivenDefinitions, i, j) :
        i \in {k \in 1..Len(GivenDefinitions) : GivenDefinitions[k] \in {URL, REMOVE}},
        j \in 1..Len(GivenDefinitions)}

\* C25 as stated: when "url" is among the values and the options are
\* parsed, the space substitute is "%20" unless the space has a definition
\* of its own, every metacharacter without a definition of its own has the
\* rule of its URL escape, and the options parsed are the same wherever a
\* blanket value stands among the definitions.
C25_UrlWhereverItStands ==
    (UrlGiven /\ IsSome(options)) =>
        /\ " " \notin Defined => Get(options).space_substitute = Some(URL_SPACE)
        /\ \A i \in 1..Len(OWL_METACHARACTERS) :
               OWL_METACHARACTERS[i] \notin Defined =>
                   \E r \in 1..Len(Get(options).metacharacter_substitutes) :
                       Get(options).metacharacter_substitutes[r]
                           = Rule(OWL_METACHARACTERS[i], UrlQuote(OWL_METACHARACTERS[i]))
        /\ \A moved \in BlanketMoved :
               ParseOptions([arguments EXCEPT !.metacharacter_substitute = moved])
                   = Ok(Get(options))

---------------------------------------------------------------------------
(* Properties of the blocks handed to serialise *)

\* C26 as stated: every block individual_blocks has built in the run has an
\* entry of types that is not empty, and serialise does not fail on the
\* blocks for want of one.
C26_EveryBlockIsTyped ==
    /\ \A b \in 1..Len(assembled) :
           /\ EntryIndex(assembled[b].entries, TYPES) # 0
           /\ \A e \in 1..Len(assembled[b].entries) :
                  assembled[b].entries[e].name = TYPES =>
                      assembled[b].entries[e].values # {}
    /\ (pc = "exit" /\ assembled # <<>>) => Get(exit_message).exc # "KeyError"

---------------------------------------------------------------------------
(* Properties of the text kept from the markup of a label *)

\* the text segments of a value, in the order of the document: the data
\* of the events HTMLParser makes of it
RECURSIVE SegmentsOf(_)
SegmentsOf(evs) ==
    IF evs = <<>> THEN <<>>
    ELSE (IF Head(evs).type = "data" THEN <<Head(evs).data>> ELSE <<>>)
         \o SegmentsOf(Tail(evs))

\* the text holds the segments, one after the other
RECURSIVE HoldsInOrder(_, _)
HoldsInOrder(text, segments) ==
    \/ segments = <<>>
    \/ \E i \in 1..(Len(text) - Len(Head(segments)) + 1) :
           /\ SubSeq(text, i, i + Len(Head(segments)) - 1) = Head(segments)
           /\ HoldsInOrder(SubSeq(text, i + Len(Head(segments)), Len(text)),
                           Tail(segments))

\* C27 as stated: the text a new parser returns for a value holds every
\* text segment of the value, in the order of the document; a block whose
\* text is split by inline markup yields all of it ("bc"), and so does a
\* block followed by text outside it ("ad").
C27_NoTextLost ==
    Len(returned) >= 1 =>
        /\ HoldsInOrder(returned[1], SegmentsOf(Tokenize(None, Strip(labels[1])).events))
        /\ labels[1] = DIV_INLINE => returned[1] = <<"b", "c">>
        /\ labels[1] = DIV_A \o <<"d">> => returned[1] = <<"a", "d">>

---------------------------------------------------------------------------
(* Properties of the identifier _replace_metacharacters returns *)

\* C28 as stated: an identifier _replace_metacharacters returns holds no
\* space and no metacharacter, whatever the label, the scheme and the rules.
C28_IdentifierIsClean ==
    (IsSome(san_out) /\ Get(san_out).ok) =>
        \A i \in 1..Len(Get(san_out).val) :
            /\ Get(san_out).val[i] # " "
            /\ ~IsOwlMetacharacter(Get(san_out).val[i])

---------------------------------------------------------------------------
(* Properties of the order in which individuals_and_arrows yields *)

\* the Individuals and the arrow cells of the tree
TreeIndividuals == Get(draw_io_xml_tree).individual_cells
TreeArrows == Get(draw_io_xml_tree).arrow_cells

\* the k-th value yielded is the Individual of the k-th individual cell
YieldsIndividual(k) ==
    /\ yielded[k].ok
    /\ yielded[k].val.type = "Individual"
    /\ yielded[k].val.identifier = TreeIndividuals[k].individual.identifier
    /\ yielded[k].val.ric_class = TreeIndividuals[k].individual.ric_class

\* an exception of the resolution of an arrow
ResolutionErrors ==
    {"NoSourceException", "ArrowWithoutIndividualAsSourceException"}

\* the value yielded for the k-th arrow cell is about that cell: the Arrow
\* named by the label of the cell, or an exception, which names the cell if
\* it is one of the resolution
AboutArrow(k) ==
    IF ItemOfArrow(k).ok
    THEN /\ ItemOfArrow(k).val.type = "Arrow"
         /\ RICO \o ItemOfArrow(k).val.identifier = Strip(TreeArrows[k].label)
    ELSE ItemOfArrow(k).exc \in ResolutionErrors =>
             \E i \in 1..Len(ItemOfArrow(k).msg) : ItemOfArrow(k).msg[i] = ArrowCell(k).id

\* the cells of the sequence follow the order of the document
InDocumentOrder(classified) ==
    \A i \in 1..Len(classified) : \A j \in i..Len(classified) :
        classified[i].cell <= classified[j].cell

\* the source of the k-th arrow cannot be identified: it has no link, and
\* the mode is strict, or no individual and no literal has the start point
\* in its widened box
UnidentifiedSource(k) ==
    /\ ArrowCell(k).source = None
    /\ \/ arguments.strict_mode
       \/ TreeArrows[k].start = None
       \/ /\ IndividualsAround(Get(TreeArrows[k].start), arguments.max_gap) = {}
          /\ LiteralsAround(Get(TreeArrows[k].start), arguments.max_gap) = {}

\* C29: the values individuals_and_arrows has yielded are the Individuals
\* of the individual cells, in the order of the document, and after them
\* the values for the arrow cells, in the order of the document; an
\* exception of the resolution of an arrow comes after every Individual;
\* and for an arrow of which neither end can be identified the exception
\* is the one about the source.
C29_IndividualsBeforeArrows ==
    draw_io_xml_tree # None =>
        /\ InDocumentOrder(TreeIndividuals)
        /\ InDocumentOrder(TreeArrows)
        /\ \A k \in 1..Len(yielded) : k <= Len(TreeIndividuals) => YieldsIndividual(k)
        /\ \A k \in ConsumedArrows : AboutArrow(k)
        /\ (raised # None /\ Get(raised).exc \in ResolutionErrors) =>
               /\ Len(yielded) > Len(TreeIndividuals)
               /\ yielded[Len(yielded)] = Get(raised)
               /\ \A k \in 1..(Len(yielded) - 1) : yielded[k].ok
        /\ \A k \in ConsumedArrows :
               (UnidentifiedSource(k) /\ UnidentifiedTarget(k)) =>
                   ItemOfArrow(k) = NoEnd(SOURCE, k)

\* C29 witness: in strict mode, of two edges the first is linked at both
\* ends and the second at neither; the two Individuals, the Arrow of the
\* first edge and the exception about the source of the second were
\* yielded, in that order.
C29_Witness ==
    /\ arguments.strict_mode
    /\ draw_io_xml_tree # None
    /\ Len(TreeIndividuals) = 2
    /\ Len(TreeArrows) = 2
    /\ Len(yielded) = 4
    /\ YieldsIndividual(1)
    /\ YieldsIndividual(2)
    /\ yielded[3] = Ok([type |-> "Arrow", identifier |-> HAS_BIRTH_PLACE,
                        source |-> JANE_DOE, target |-> OSLO])
    /\ ArrowCell(2).source = None
    /\ ArrowCell(2).target = None
    /\ yielded[4] = NoEnd(SOURCE, 2)
    /\ raised = Some(NoEnd(SOURCE, 2))

---------------------------------------------------------------------------
(* Properties of the calls _start_or_end makes of itself *)

\* the parent attributes can be followed n times from the i-th cell
RECURSIVE Climbs(_, _, _)
Climbs(cells, i, n) ==
    \/ n = 0
    \/ /\ ParentOf(cells, cells[i]).ok
       /\ Climbs(cells, ParentOf(cells, cells[i]).val, n - 1)

\* The parent attributes lead from the edge round and round: they can be
\* followed more times than the diagram has cells.
CyclicParents == Climbs(Get(stdin), EdgePlace(Get(stdin)), Len(Get(stdin)) + 1)

\* the outermost call of _start_or_end has returned or raised, and not
\* because the calls within one another were too many
ResolutionEnded ==
    /\ frames = <<>>
    /\ resolved # None
    /\ Get(resolved).ok \/ Get(resolved).exc # "RecursionError"

\* C30: whatever the parent attributes of the edge and of the groups around
\* it are (a tree, a reference to a missing cell, a cell that is its own
\* parent, cells that are each other's parents), the resolution of the start
\* or the end of the edge comes to its end, by a value or an exception other
\* than a RecursionError, and at no time are there more than two calls of
\* _start_or_end within one another.
C30_ResolutionTerminates == [](Len(frames) <= 2) /\ <>ResolutionEnded

\* the parent attributes go round, the call on the edge has called
\* _start_or_end on the parent, and the resolution has ended with the
\* coordinates of the point
C30_Witness ==
    /\ CyclicParents
    /\ ResolutionEnded
    /\ Get(resolved).ok
    /\ Get(resolved).val # None

=========================================================================
